---- MODULE Spec2Model ----
(***************************************************************************)
(* Model of the schema migration engine of Feedbacker                      *)
(* (src/src/database/migrations.rs): the statement splitter, the runner    *)
(* (run_all_migrations / apply_migration), rollback_migration and the      *)
(* tracking table, over an abstract transactional database.                *)
(*                                                                         *)
(* SQL text is a sequence of one-character strings.  The database is the   *)
(* external collaborator; it understands a miniature dialect:              *)
(*   C<o>...   CREATE object <o>      fails when <o> exists / no schema    *)
(*   D<o>...   DROP object <o>        fails when <o> does not exist        *)
(*   X...      DROP SCHEMA public CASCADE                                  *)
(*   S...      CREATE SCHEMA public                                        *)
(*   anything else is a syntax error.                                      *)
(*                                                                         *)
(* Spec is the engine called by one host; SplitSpec is                     *)
(* split_sql_statements called on its own over enumerated texts; DriftSpec *)
(* is Spec across builds whose registry scripts were edited; FairSpec is   *)
(* Spec with a started run driven to its return; ConcSpec is two hosts     *)
(* starting against one database; ScanSpec follows the scan of the         *)
(* splitter character by character; PreviewSpec is Spec on a registry      *)
(* with multi-byte characters.                                             *)
(***************************************************************************)
EXTENDS Integers, Sequences, FiniteSets, TLC

\* ------------------------------------------------------------------ bounds
\* Number of operations the host invokes in one behaviour.
MaxCalls == 3
\* Number of injected database faults (connection error, timeout) per behaviour.
MaxFaults == 1

\* Length of the SQL texts split_sql_statements is called on, all enumerated.
MaxLen == 5
\* Length of the body of a dollar-quoted block.
MaxBody == 3
\* Number of statements of a generated script.
MaxStmts == 3

\* ------------------------------------------------------------ text helpers
NL == "\n"
Whitespace == {" ", "\n", "\t", "\r"}

\* i32 bounds of paren_depth
I32Min == -2147483647 - 1

Range(s) == {s[i] : i \in 1..Len(s)}

RECURSIVE TrimStart(_)
\* str::trim_start
TrimStart(s) ==
    IF s = <<>> THEN <<>>
    ELSE IF Head(s) \in Whitespace THEN TrimStart(Tail(s)) ELSE s

RECURSIVE TrimEnd(_)
\* str::trim_end
TrimEnd(s) ==
    IF s = <<>> THEN <<>>
    ELSE IF s[Len(s)] \in Whitespace THEN TrimEnd(SubSeq(s, 1, Len(s) - 1)) ELSE s

\* str::trim
Trim(s) == TrimEnd(TrimStart(s))

\* EndsWith that never finds the suffix.
EndsWithNever(s, suffix) == FALSE

\* EndsWith that recognises a suffix only where it is not preceded by its own
\* first character: of a run of "$" only the first pair is a "$$".
EndsWithFresh(s, suffix) ==
    /\ Len(s) >= Len(suffix)
    /\ SubSeq(s, Len(s) - Len(suffix) + 1, Len(s)) = suffix
    /\ ~(Len(s) > Len(suffix) /\ s[Len(s) - Len(suffix)] = suffix[1])

\* str::ends_with
EndsWith(s, suffix) ==
    /\ Len(s) >= Len(suffix)
    /\ SubSeq(s, Len(s) - Len(suffix) + 1, Len(s)) = suffix

\* str::starts_with
StartsWith(s, prefix) ==
    /\ Len(s) >= Len(prefix)
    /\ SubSeq(s, 1, Len(prefix)) = prefix

\* Position of the first line feed of s, 0 when there is none.
FirstNL(s) ==
    IF \E i \in 1..Len(s) : s[i] = NL
    THEN CHOOSE i \in 1..Len(s) : s[i] = NL /\ \A j \in 1..(i - 1) : s[j] # NL
    ELSE 0

\* One line without its terminator: str::lines also drops a trailing "\r".
StripCR(l) == IF l # <<>> /\ l[Len(l)] = "\r" THEN SubSeq(l, 1, Len(l) - 1) ELSE l

RECURSIVE Lines(_)
\* str::lines: split at "\n"; a final empty line is not produced.
Lines(s) ==
    IF s = <<>> THEN <<>>
    ELSE LET n == FirstNL(s) IN
         IF n = 0 THEN <<s>>
         ELSE <<StripCR(SubSeq(s, 1, n - 1))>> \o Lines(SubSeq(s, n + 1, Len(s)))

RECURSIVE SkipWhileBlankOrComment(_)
\* .skip_while(|line| line.trim().is_empty() || line.trim().starts_with("--"))
SkipWhileBlankOrComment(ls) ==
    IF ls = <<>> THEN <<>>
    ELSE IF Trim(Head(ls)) = <<>> \/ StartsWith(Trim(Head(ls)), <<"-", "-">>)
         THEN SkipWhileBlankOrComment(Tail(ls))
         ELSE ls

RECURSIVE JoinNL(_)
\* .collect::<Vec<_>>().join("\n")
JoinNL(ls) ==
    IF ls = <<>> THEN <<>>
    ELSE IF Len(ls) = 1 THEN Head(ls)
    ELSE Head(ls) \o <<NL>> \o JoinNL(Tail(ls))

\* apply_migration: the text handed to the database for one split statement
\* (leading blank and comment lines stripped, then trimmed).
CleanedTrimmed(statement) == Trim(JoinNL(SkipWhileBlankOrComment(Lines(statement))))

\* ------------------------------------------------------ statement splitter
\* Scanner state of split_sql_statements.
SplitInit ==
    [statements |-> <<>>, current |-> <<>>, in_dollar_quote |-> FALSE, paren_depth |-> 0]

\* SaturatingSub1 that does not subtract: a ")" leaves the depth as it is.
SubNothing(d) == d

\* SaturatingSub1 with a floor of zero.
ClampedSub1(d) == IF d <= 0 THEN 0 ELSE d - 1

\* i32::saturating_sub(1): saturates at i32::MIN, not at zero.
SaturatingSub1(d) == IF d = I32Min THEN I32Min ELSE d - 1

\* SplitStep that ends a statement at every ";" outside a dollar-quoted
\* block, whatever the parenthesis depth.
SplitStepAnyDepth(st, ch) ==
    LET cur == Append(st.current, ch)
        idq == IF EndsWith(cur, <<"$", "$">>) THEN ~st.in_dollar_quote
               ELSE st.in_dollar_quote
    IN  IF idq
        THEN [st EXCEPT !.current = cur, !.in_dollar_quote = idq]
        ELSE IF ch = "("
        THEN [st EXCEPT !.current = cur, !.in_dollar_quote = idq,
                        !.paren_depth = st.paren_depth + 1]
        ELSE IF ch = ")"
        THEN [st EXCEPT !.current = cur, !.in_dollar_quote = idq,
                        !.paren_depth = SaturatingSub1(st.paren_depth)]
        ELSE IF ch = ";"
        THEN [st EXCEPT !.statements = Append(st.statements, cur),
                        !.current = <<>>, !.in_dollar_quote = idq]
        ELSE [st EXCEPT !.current = cur, !.in_dollar_quote = idq]

\* SplitStep that emits the statement without its terminating semicolon.
SplitStepDropsTerminator(st, ch) ==
    LET cur == Append(st.current, ch)
        idq == IF EndsWith(cur, <<"$", "$">>) THEN ~st.in_dollar_quote
               ELSE st.in_dollar_quote
    IN  IF idq
        THEN [st EXCEPT !.current = cur, !.in_dollar_quote = idq]
        ELSE IF ch = "("
        THEN [st EXCEPT !.current = cur, !.in_dollar_quote = idq,
                        !.paren_depth = st.paren_depth + 1]
        ELSE IF ch = ")"
        THEN [st EXCEPT !.current = cur, !.in_dollar_quote = idq,
                        !.paren_depth = SaturatingSub1(st.paren_depth)]
        ELSE IF ch = ";" /\ st.paren_depth = 0
        THEN [st EXCEPT !.statements = Append(st.statements, st.current),
                        !.current = <<>>, !.in_dollar_quote = idq]
        ELSE [st EXCEPT !.current = cur, !.in_dollar_quote = idq]

\* The accumulated text ends inside a "--" comment or inside a single-quoted
\* literal.
InCommentOrLiteral(cur) ==
    \/ \E j \in 1..(Len(cur) - 1) :
          /\ cur[j] = "-" /\ cur[j + 1] = "-"
          /\ \A k \in j..Len(cur) : cur[k] # NL
    \/ Cardinality({j \in 1..Len(cur) : cur[j] = "'"}) % 2 = 1

\* SplitStep of a scanner that knows comments and string literals: a
\* character inside one is accumulated and otherwise ignored.
SplitStepSkipsComments(st, ch) ==
    LET cur == Append(st.current, ch)
        idq == IF EndsWith(cur, <<"$", "$">>) THEN ~st.in_dollar_quote
               ELSE st.in_dollar_quote
    IN  IF idq \/ InCommentOrLiteral(st.current)
        THEN [st EXCEPT !.current = cur, !.in_dollar_quote = idq]
        ELSE IF ch = "("
        THEN [st EXCEPT !.current = cur, !.in_dollar_quote = idq,
                        !.paren_depth = st.paren_depth + 1]
        ELSE IF ch = ")"
        THEN [st EXCEPT !.current = cur, !.in_dollar_quote = idq,
                        !.paren_depth = SaturatingSub1(st.paren_depth)]
        ELSE IF ch = ";" /\ st.paren_depth = 0
        THEN [st EXCEPT !.statements = Append(st.statements, cur),
                        !.current = <<>>, !.in_dollar_quote = idq]
        ELSE [st EXCEPT !.current = cur, !.in_dollar_quote = idq]

\* One iteration of `for ch in sql.chars()`.
SplitStep(st, ch) ==
    LET cur == Append(st.current, ch)
        idq == IF EndsWith(cur, <<"$", "$">>) THEN ~st.in_dollar_quote
               ELSE st.in_dollar_quote
    IN  IF idq
        THEN [st EXCEPT !.current = cur, !.in_dollar_quote = idq]
        ELSE IF ch = "("
        THEN [st EXCEPT !.current = cur, !.in_dollar_quote = idq,
                        !.paren_depth = st.paren_depth + 1]
        ELSE IF ch = ")"
        THEN [st EXCEPT !.current = cur, !.in_dollar_quote = idq,
                        !.paren_depth = SaturatingSub1(st.paren_depth)]
        ELSE IF ch = ";" /\ st.paren_depth = 0
        THEN [st EXCEPT !.statements = Append(st.statements, cur),
                        !.current = <<>>, !.in_dollar_quote = idq]
        ELSE [st EXCEPT !.current = cur, !.in_dollar_quote = idq]

RECURSIVE SplitRange(_, _, _, _)
\* The scanner state after characters lo..hi of the text, starting from st:
\* the loop's left-to-right fold, evaluated by halving the range (the left
\* half is a value before the right half starts).
SplitRange(st, sql, lo, hi) ==
    IF lo > hi THEN st
    ELSE IF lo = hi THEN SplitStep(st, sql[lo])
    ELSE CHOOSE after \in
            {SplitRange(left, sql, (lo + hi) \div 2 + 1, hi) :
                left \in {SplitRange(st, sql, lo, (lo + hi) \div 2)}} : TRUE

\* The scanner state after the whole text.
SplitScan(st, sql) == SplitRange(st, sql, 1, Len(sql))

\* split_sql_statements without the final push of the accumulated text.
split_sql_terminated_only(sql) == SplitScan(SplitInit, sql).statements

\* split_sql_statements
split_sql_statements(sql) ==
    LET st == SplitScan(SplitInit, sql)
    IN  IF Trim(st.current) # <<>> THEN Append(st.statements, st.current)
        ELSE st.statements

\* ---------------------------------------------------------------- checksum
\* Character codes used by the digest abstraction.
Code(ch) ==
    CASE ch = "C" -> 1 [] ch = "D" -> 2 [] ch = "X" -> 3 [] ch = "S" -> 4
      [] ch = "Z" -> 5 [] ch = ";" -> 6 [] ch = "(" -> 7 [] ch = ")" -> 8
      [] ch = "$" -> 9 [] ch = "-" -> 10 [] ch = " " -> 11 [] ch = NL -> 12
      [] ch = "a" -> 13 [] ch = "b" -> 14 [] ch = "c" -> 15 [] ch = "d" -> 16
      [] ch = "f" -> 17 [] ch = "i" -> 18 [] ch = "j" -> 19 [] ch = "," -> 20
      [] OTHER -> 21

\* Size of the digest space of the abstraction (SHA-256 has 2^256 values).
DigestSpace == 65521

RECURSIVE Digest(_, _, _, _)
\* The digest state after characters lo..hi, starting from h (a left fold,
\* evaluated by halving the range).
Digest(h, sql, lo, hi) ==
    IF lo > hi THEN h
    ELSE IF lo = hi THEN (h * 31 + Code(sql[lo])) % DigestSpace
    ELSE CHOOSE after \in
            {Digest(left, sql, (lo + hi) \div 2 + 1, hi) :
                left \in {Digest(h, sql, lo, (lo + hi) \div 2)}} : TRUE

\* calculate_checksum: a deterministic, unsalted digest of the script text
\* (SHA-256 in the source; a polynomial digest over a small space here).
calculate_checksum(sql) == Digest(7, sql, 1, Len(sql))

\* ---------------------------------------------------------------- database
ObjNames == {"a", "b", "c", "d", "f"}

\* The committed state of a database that has just been created.
EmptyDb == [schema |-> TRUE, tracking |-> FALSE, rows |-> {}, objs |-> {}]

RowIds(d) == {r.id : r \in d.rows}

\* What the server does with the text it receives: leading white space and
\* leading "--" comment lines are not part of the command.
RECURSIVE DbSkipComments(_)
DbSkipComments(text) ==
    LET t == TrimStart(text) IN
    IF StartsWith(t, <<"-", "-">>)
    THEN LET n == FirstNL(t) IN
         IF n = 0 THEN <<>> ELSE DbSkipComments(SubSeq(t, n + 1, Len(t)))
    ELSE t

\* The first non-blank character after the verb: the object's name.
DbObject(cmd) == LET r == TrimStart(Tail(cmd)) IN IF r = <<>> THEN "" ELSE Head(r)

\* The server's own reading of a command: position j lies inside a
\* dollar-quoted body.
DbQuoted(cmd, j) ==
    Cardinality({k \in 1..(j - 1) : cmd[k] = "$" /\ cmd[k + 1] = "$"}) % 2 = 1

\* Parentheses opened and closed in cmd[1..i], outside dollar-quoted bodies.
DbOpens(cmd, i) == Cardinality({j \in 1..i : cmd[j] = "(" /\ ~DbQuoted(cmd, j)})
DbCloses(cmd, i) == Cardinality({j \in 1..i : cmd[j] = ")" /\ ~DbQuoted(cmd, j)})

\* A parenthesis closes what was not opened, or one is left open: a syntax
\* error for the server.
DbUnbalanced(cmd) ==
    \/ \E i \in 1..Len(cmd) : DbCloses(cmd, i) > DbOpens(cmd, i)
    \/ DbOpens(cmd, Len(cmd)) # DbCloses(cmd, Len(cmd))

\* Position i is outside every parenthesis and every dollar-quoted body.
DbTopLevel(cmd, i) == ~DbQuoted(cmd, i) /\ DbOpens(cmd, i) = DbCloses(cmd, i)

\* The text holds more than one command: execute() sends a prepared
\* statement, and the server refuses several commands in one.
DbMultiple(cmd) ==
    \E i \in 1..(Len(cmd) - 1) :
        /\ cmd[i] = ";"
        /\ DbTopLevel(cmd, i)
        /\ DbSkipComments(SubSeq(cmd, i + 1, Len(cmd))) # <<>>

\* The primitive write a command stands for, <<"error">> when the server
\* rejects it in database state d, <<"empty">> for an empty query.
DbCommand(d, text) ==
    LET cmd == DbSkipComments(text) IN
    IF cmd = <<>> THEN <<"empty">>
    ELSE IF DbUnbalanced(cmd) \/ DbMultiple(cmd) THEN <<"error">>
    ELSE LET verb == Head(cmd)
             o == DbObject(cmd)
         IN  CASE verb = "C" ->
                    IF d.schema /\ o \in ObjNames /\ o \notin d.objs
                    THEN <<"create", o>> ELSE <<"error">>
               [] verb = "D" ->
                    IF o \in d.objs THEN <<"drop", o>> ELSE <<"error">>
               [] verb = "X" -> IF d.schema THEN <<"dropschema">> ELSE <<"error">>
               [] verb = "S" -> IF ~d.schema THEN <<"createschema">> ELSE <<"error">>
               [] OTHER -> <<"error">>

\* The effect of one primitive write on a database state.
ApplyOp(d, op) ==
    CASE op[1] = "create" -> [d EXCEPT !.objs = d.objs \cup {op[2]}]
      [] op[1] = "drop" -> [d EXCEPT !.objs = d.objs \ {op[2]}]
      [] op[1] = "dropschema" ->
            [schema |-> FALSE, tracking |-> FALSE, rows |-> {}, objs |-> {}]
      [] op[1] = "createschema" -> [d EXCEPT !.schema = TRUE]
      [] op[1] = "createtracking" -> [d EXCEPT !.tracking = TRUE]
      [] op[1] = "insert" -> [d EXCEPT !.rows = d.rows \cup {op[2]}]
      [] op[1] = "delete" -> [d EXCEPT !.rows = {r \in d.rows : r.id # op[2]}]
      [] OTHER -> d

RECURSIVE View(_, _)
\* What a transaction sees: the committed state with its own writes applied.
View(d, ops) == IF ops = <<>> THEN d ELSE View(ApplyOp(d, Head(ops)), Tail(ops))

\* ---------------------------------------------------------------- registry
NoDown == <<"None">>
Some(sql) == <<"Some", sql>>

\* The shape of v1_initial_schema: comment lines, a parenthesised table body,
\* a dollar-quoted function body, trailing white space; its down-script is
\* "DROP SCHEMA public CASCADE; CREATE SCHEMA public;".
V1Up ==
    <<NL, "-", "-", " ", "a", NL, "C", "a", ";", NL,
      "C", "b", "(", "i", "(", "j", ")", ",", ")", ";", NL, NL,
      "-", "-", " ", "f", NL,
      "C", "f", "$", "$", "b", ";", "c", ";", NL, "$", "$", ";", NL, " ">>
V1Down == <<"X", ";", " ", "S", ";">>

RegistryV1 ==
    << [id |-> "v1_initial_schema", description |-> "initial", up_sql |-> V1Up,
        down_sql |-> Some(V1Down)] >>

\* A registry of three migrations declared against the order of their ids;
\* the second has no down-script.
RegistryOrder ==
    << [id |-> "b_second", description |-> "second",
        up_sql |-> <<"C", "b", "(", "i", ";", "j", ")", ";", NL, "C", "c">>,
        down_sql |-> Some(<<"D", "c", ";", "D", "b", ";">>)],
       [id |-> "a_first", description |-> "first",
        up_sql |-> <<"-", "-", " ", "a", NL, "C", "a", ";">>,
        down_sql |-> NoDown],
       [id |-> "c_third", description |-> "third",
        up_sql |-> <<"C", "d", ";", NL>>,
        down_sql |-> Some(<<"D", "d", ";">>)] >>

\* A registry whose second migration has a malformed second statement.
RegistryBad ==
    << [id |-> "m1_ok", description |-> "ok",
        up_sql |-> <<"C", "a", ";">>,
        down_sql |-> Some(<<"D", "a", ";">>)],
       [id |-> "m2_bad", description |-> "bad",
        up_sql |-> <<"C", "b", ";", "Z", ";", "C", "c", ";">>,
        down_sql |-> Some(<<"D", "c", ";", "D", "b", ";">>)],
       [id |-> "m3_after", description |-> "after",
        up_sql |-> <<"C", "d", ";">>,
        down_sql |-> NoDown] >>

\* A registry whose scripts hold comments only: the first migration's
\* up-script and down-script are comment lines, the second's up-script is
\* one comment line with a semicolon in it.
RegistryComments ==
    << [id |-> "n_notes", description |-> "notes",
        up_sql |-> <<"-", "-", " ", "a", NL, NL, " ", "-", "-", "b", NL>>,
        down_sql |-> Some(<<"-", "-", " ", "a", NL>>)],
       [id |-> "s_semi", description |-> "semi",
        up_sql |-> <<"-", "-", " ", "c", ";", " ", "d", NL>>,
        down_sql |-> NoDown] >>

\* A statement creating object d whose text is longer than the 80
\* characters kept in the error context, ending in `last`.
LongStatement(last) == <<"C", "d", " ">> \o [i \in 1..80 |-> "e"] \o <<last, ";">>

\* A registry whose migration holds two statements that begin with the same
\* 80 characters; the second is rejected (the object exists).
RegistryTwice ==
    << [id |-> "t_twice", description |-> "twice",
        up_sql |-> LongStatement("a") \o <<NL>> \o LongStatement("b"),
        down_sql |-> NoDown] >>

\* A statement creating object o with a two-byte character after pad
\* one-byte characters: it starts at byte 3 + pad.
WideStatement(o, pad) == <<"C", o, " ">> \o [i \in 1..pad |-> "e"] \o <<"w", "a", ";">>

\* A registry with non-ASCII statement texts: in the first migration the
\* two-byte character ends at byte 80, in the second it lies across byte 80.
RegistryWide ==
    << [id |-> "w_aligned", description |-> "aligned",
        up_sql |-> WideStatement("d", 75),
        down_sql |-> Some(<<"D", "d", ";">>)],
       [id |-> "w_straddle", description |-> "straddle",
        up_sql |-> WideStatement("b", 76),
        down_sql |-> NoDown] >>

Registries == {RegistryV1, RegistryOrder, RegistryBad, RegistryComments, RegistryTwice}

\* An id that no registry declares.
UnknownId == "no_such_migration"

\* ------------------------------------------------------------------- state
VARIABLES
    db,        \* committed state of the database
    registry,  \* what get_all_migrations returns in this build
    pr,        \* per caller: position and locals of the operation in progress
    hist,      \* completed calls, oldest first (history)
    calls,     \* operations invoked so far
    faults,    \* database faults injected so far
    now,       \* database clock: advances at each transaction start
    split_sql, \* the text handed to split_sql_statements called on its own
    split_out  \* what that call returned

vars == <<db, registry, pr, hist, calls, faults, now, split_sql, split_out>>

\* Callers of the engine; Spec runs one at a time (process startup).
Procs == {1, 2}
Runner == 1

NoTx == [open |-> FALSE, ops |-> <<>>, started |-> 0]
NoRet == [status |-> "none", payload |-> <<>>, err |-> <<>>]

IdleProc ==
    [pc |-> "idle", op |-> "none", arg |-> "", applied |-> <<>>, applied_count |-> 0,
     mi |-> 0, si |-> 0, tx |-> NoTx, events |-> <<>>, db0 |-> EmptyDb,
     faulted |-> FALSE, logged |-> <<>>, ret |-> NoRet]

\* get_all_migrations
get_all_migrations == registry

\* split_sql_statements has not been called on its own.
NotSplit == [done |-> FALSE, statements |-> <<>>]

\* The engine before any call, with one of the registries regs.
EngineInit(regs) ==
    /\ db = EmptyDb
    /\ registry \in regs
    /\ pr = [p \in Procs |-> IdleProc]
    /\ hist = <<>>
    /\ calls = 0
    /\ faults = 0
    /\ now = 0

Init ==
    /\ EngineInit(Registries)
    /\ split_sql = <<>>
    /\ split_out = NotSplit

\* One entry of a call's event list: what the call asked of the database.
\* kind: begin, exec, insert, commit, fail (rb_... for rollback_migration);
\* si: the statement's index in the split list, 0 when not a statement;
\* stage: for fail, the step that failed.
Ev(kind, id, si, stage) == [kind |-> kind, id |-> id, si |-> si, stage |-> stage]

\* A database round trip may fail for reasons outside the program.
FaultChoices == IF faults < MaxFaults THEN {FALSE, TRUE} ELSE {FALSE}
Bump(f) == IF f THEN faults + 1 ELSE faults

\* Locals of a call that starts now.
Enter(op, arg) ==
    [IdleProc EXCEPT !.op = op, !.arg = arg, !.db0 = db]

\* The record of a call that has returned, d1 being the database it leaves.
Completed(p, rec, d1) ==
    [p |-> p, op |-> rec.op, arg |-> rec.arg, status |-> rec.ret.status,
     payload |-> rec.ret.payload, err |-> rec.ret.err, applied |-> rec.applied,
     applied_count |-> rec.applied_count, logged |-> rec.logged,
     events |-> rec.events, db0 |-> rec.db0, db1 |-> d1, faulted |-> rec.faulted]

\* Return Ok(()): the unit value carries nothing.
ReturnOk(rec) ==
    [rec EXCEPT !.pc = "idle", !.tx = NoTx,
                !.ret = [status |-> "Ok", payload |-> <<>>, err |-> <<>>]]

\* ReturnErr with the error swallowed: the failure is recorded and the loop
\* goes on to the next migration.
ReturnErrContinues(rec, chain) ==
    [rec EXCEPT !.pc = "loop", !.mi = rec.mi + 1, !.tx = NoTx,
                !.ret = [status |-> "Err", payload |-> <<>>, err |-> chain]]

\* Return Err(chain); a transaction still open is dropped, which rolls it back.
ReturnErr(rec, chain) ==
    [rec EXCEPT !.pc = "idle", !.tx = NoTx,
                !.ret = [status |-> "Err", payload |-> <<>>, err |-> chain]]

\* ------------------------------------------------ create_migrations_table
\* CREATE TABLE IF NOT EXISTS migrations, executed on the pool (autocommit).
create_migrations_table(p) ==
    /\ pr[p].pc = "idle"
    /\ calls < MaxCalls
    /\ \E f \in FaultChoices :
         LET rec == [Enter("create_migrations_table", "") EXCEPT !.faulted = f]
             ok == ~f /\ db.schema
             d1 == IF ok THEN ApplyOp(db, <<"createtracking">>) ELSE db
             out == IF ok THEN ReturnOk(rec)
                    ELSE ReturnErr(rec, <<<<"Failed to create migrations table">>, <<"db">>>>)
         IN  /\ db' = d1
             /\ pr' = [pr EXCEPT ![p] = out]
             /\ hist' = Append(hist, Completed(p, out, d1))
             /\ faults' = Bump(f)
    /\ calls' = calls + 1
    /\ UNCHANGED <<registry, now, split_sql, split_out>>

\* ------------------------------------------------------ run_all_migrations
RECURSIVE SortByAppliedAt(_)
\* ORDER BY applied_at
SortByAppliedAt(rows) ==
    IF rows = {} THEN <<>>
    ELSE LET r == CHOOSE x \in rows : \A y \in rows : x.applied_at <= y.applied_at
         IN  <<r.id>> \o SortByAppliedAt(rows \ {r})

\* get_applied_migrations taking a missing table for an empty one.
get_applied_migrations_lenient(d) ==
    IF d.tracking THEN [ok |-> TRUE, ids |-> SortByAppliedAt(d.rows)]
    ELSE [ok |-> TRUE, ids |-> <<>>]

\* get_applied_migrations that verifies checksums: a row whose checksum is
\* not that of the registry's script does not count as applied.
get_applied_migrations_verified(d) ==
    IF d.tracking
    THEN [ok |-> TRUE,
          ids |-> SortByAppliedAt(
                     {r \in d.rows :
                        \E i \in 1..Len(registry) :
                           /\ registry[i].id = r.id
                           /\ calculate_checksum(registry[i].up_sql) = r.checksum})]
    ELSE [ok |-> FALSE, ids |-> <<>>]

\* get_applied_migrations: SELECT id FROM migrations ORDER BY applied_at.
\* The query fails when the table does not exist.
get_applied_migrations(d) ==
    IF d.tracking THEN [ok |-> TRUE, ids |-> SortByAppliedAt(d.rows)]
    ELSE [ok |-> FALSE, ids |-> <<>>]

\* Contains with the test lost: nothing counts as applied.
ContainsNever(v, x) == FALSE

\* applied_migrations.contains(&migration.id)
Contains(v, x) == \E i \in 1..Len(v) : v[i] = x

\* NextPending walking the registry from the wrong end: the last pending
\* migration is taken first.
NextPendingLast(migrations, applied, from) ==
    IF \E i \in from..Len(migrations) : migrations[i].id \notin Range(applied)
    THEN CHOOSE i \in from..Len(migrations) :
            /\ migrations[i].id \notin Range(applied)
            /\ \A j \in (i + 1)..Len(migrations) : migrations[j].id \in Range(applied)
    ELSE Len(migrations) + 1

\* NextPending without the applied test: every migration is taken.
NextPendingNoSkip(migrations, applied, from) == from

\* NextPending that gives up after the first migration of the registry: the
\* loop ends although migrations are pending.
NextPendingOnce(migrations, applied, from) ==
    IF from > 1 THEN Len(migrations) + 1
    ELSE IF \E i \in from..Len(migrations) : migrations[i].id \notin Range(applied)
    THEN CHOOSE i \in from..Len(migrations) :
            /\ migrations[i].id \notin Range(applied)
            /\ \A j \in from..(i - 1) : migrations[j].id \in Range(applied)
    ELSE Len(migrations) + 1

\* The for loop of run_all_migrations: the next index at or after `from` whose
\* migration is not in the applied snapshot, Len + 1 when there is none.
NextPending(migrations, applied, from) ==
    IF \E i \in from..Len(migrations) : ~Contains(applied, migrations[i].id)
    THEN CHOOSE i \in from..Len(migrations) :
            /\ ~Contains(applied, migrations[i].id)
            /\ \A j \in from..(i - 1) : Contains(applied, migrations[j].id)
    ELSE Len(migrations) + 1

\* Entry of run_all_migrations up to the result of get_applied_migrations.
RunFetch(p) ==
    /\ pr[p].pc = "idle"
    /\ calls < MaxCalls
    /\ \E f \in FaultChoices :
         LET rec == [Enter("run_all_migrations", "") EXCEPT !.faulted = f]
             got == get_applied_migrations(db)
         IN  /\ faults' = Bump(f)
             /\ IF ~f /\ got.ok
                THEN /\ pr' = [pr EXCEPT ![p] =
                                 [rec EXCEPT !.pc = "loop", !.applied = got.ids,
                                             !.applied_count = 0, !.mi = 1]]
                     /\ hist' = hist
                ELSE LET out == ReturnErr(rec,
                                  <<<<"Failed to fetch applied migrations">>, <<"db">>>>)
                     IN  /\ pr' = [pr EXCEPT ![p] = out]
                         /\ hist' = Append(hist, Completed(p, out, db))
    /\ calls' = calls + 1
    /\ UNCHANGED <<db, registry, now, split_sql, split_out>>

\* Commit that never reaches the database.
CommitLost(d, ops) == d

\* transaction.commit(): the writes of the transaction become the committed
\* state.
Commit(d, ops) == View(d, ops)

\* DropTx with the rollback missing: the writes of the abandoned transaction
\* stay in the database.
DropTxLeaks(d, ops) == View(d, ops)

\* DropTx with a partial rollback: the first write of the abandoned
\* transaction stays in the database.
DropTxPartial(d, ops) == IF ops = <<>> THEN d ELSE ApplyOp(d, Head(ops))

\* A transaction handle dropped without commit (an early return by `?`):
\* sqlx rolls the transaction back, none of its writes reach the database.
DropTx(d, ops) == d

\* Conflicts without the server's locks: no write ever waits.
ConflictsNever(p, op) == FALSE

\* The write op of caller p has to wait: another open transaction holds an
\* uncommitted write of the same key (a CREATE of the same object, an INSERT
\* of the same primary key `id`).  The server lets the second writer wait
\* until the first transaction ends; .execute(..).await completes only then.
Conflicts(p, op) ==
    \E q \in Procs \ {p} :
       /\ pr[q].tx.open
       /\ \E k \in 1..Len(pr[q].tx.ops) :
             LET other == pr[q].tx.ops[k] IN
             \/ op[1] = "create" /\ other[1] = "create" /\ other[2] = op[2]
             \/ op[1] = "insert" /\ other[1] = "insert" /\ other[2].id = op[2].id

\* The migration the loop is working on.
Cur(p) == get_all_migrations[pr[p].mi]

\* AfterStatement with the tracking-row INSERT forgotten.
AfterStatementNoInsert(count, idx) == IF idx > count THEN "commit" ELSE "stmt"

\* AfterStatement that goes to the INSERT one statement early: the last
\* statement of the up-script is never executed.
AfterStatementSkipsLast(count, idx) == IF idx >= count THEN "insert" ELSE "stmt"

\* Where apply_migration goes after statement number si - 1 of n.
AfterStatement(count, idx) == IF idx > count THEN "insert" ELSE "stmt"

\* ApplyErr without the context of run_all_migrations: the error of
\* apply_migration is passed on as it is.
ApplyErrBare(id, inner) == inner

\* The error of run_all_migrations when apply_migration fails.
ApplyErr(id, inner) == <<<<"Failed to apply migration", id>>>> \o inner

\* The loop reaches the next pending migration and apply_migration begins
\* its transaction.
RunBegin(p) ==
    /\ pr[p].pc = "loop"
    /\ LET k == NextPending(get_all_migrations, pr[p].applied, pr[p].mi) IN
       /\ k <= Len(get_all_migrations)
       /\ \E f \in FaultChoices :
            LET m == get_all_migrations[k]
                rec == [pr[p] EXCEPT !.mi = k, !.faulted = pr[p].faulted \/ f]
            IN  /\ faults' = Bump(f)
                /\ IF f
                   THEN LET out == ReturnErr(
                                [rec EXCEPT !.events = rec.events \o <<Ev("fail", m.id, 0, "begin")>>],
                                ApplyErr(m.id, <<<<"Failed to start transaction">>, <<"db">>>>))
                        IN  /\ pr' = [pr EXCEPT ![p] = out]
                            /\ hist' = Append(hist, Completed(p, out, db))
                            /\ now' = now
                   ELSE /\ pr' = [pr EXCEPT ![p] =
                                    [rec EXCEPT
                                       !.tx = [open |-> TRUE, ops |-> <<>>,
                                               started |-> now + 1],
                                       !.si = 1,
                                       !.pc = AfterStatement(
                                                Len(split_sql_statements(m.up_sql)), 1),
                                       !.events = rec.events \o <<Ev("begin", m.id, 0, "")>>]]
                        /\ hist' = hist
                        /\ now' = now + 1
    /\ UNCHANGED <<db, registry, calls, split_sql, split_out>>

\* LogLine with the comparison off by one: zero is reported as applied.
LogLineAlwaysApplied(applied_count) == <<"applied", applied_count>>

\* The line run_all_migrations logs before it returns: "Applied {} new
\* migrations!" or "Database schema is up to date!".
LogLine(applied_count) ==
    IF applied_count > 0 THEN <<"applied", applied_count>> ELSE <<"up_to_date">>

\* The loop finds nothing more to apply: the count is logged, Ok(()) returned.
RunFinish(p) ==
    /\ pr[p].pc = "loop"
    /\ NextPending(get_all_migrations, pr[p].applied, pr[p].mi) > Len(get_all_migrations)
    /\ LET out == ReturnOk(
                    [pr[p] EXCEPT !.logged = LogLine(pr[p].applied_count)])
       IN  /\ pr' = [pr EXCEPT ![p] = out]
           /\ hist' = Append(hist, Completed(p, out, db))
    /\ UNCHANGED <<db, registry, calls, faults, now, split_sql, split_out>>

\* The bytes kept of a statement in the error context.
PreviewLen == 80

\* Characters that take more than one byte in UTF-8: the letter w stands for
\* a two-byte character (such as a letter with a diacritic); every other
\* character of the model is ASCII.
Wide == {"w"}
Utf8Len(ch) == IF ch \in Wide THEN 2 ELSE 1

\* str::len: the length in bytes.
ByteLen(t) == Len(t) + Cardinality({i \in 1..Len(t) : t[i] \in Wide})

\* The byte offset at which character i of t starts.
ByteStart(t, i) == (i - 1) + Cardinality({j \in 1..(i - 1) : t[j] \in Wide})

\* str::is_char_boundary
IsCharBoundary(t, b) ==
    b = ByteLen(t) \/ \E i \in 1..Len(t) : ByteStart(t, i) = b

\* trimmed.len().min(80)
PreviewCut(t) == IF ByteLen(t) < PreviewLen THEN ByteLen(t) ELSE PreviewLen

\* &trimmed[..cut] panics when cut is not a character boundary.
PreviewPanics(t) == ~IsCharBoundary(t, PreviewCut(t))

\* &trimmed[..trimmed.len().min(80)], when it does not panic: the characters
\* that end at or before the cut.
Preview(t) ==
    SubSeq(t, 1, Cardinality({i \in 1..Len(t) : ByteStart(t, i) + Utf8Len(t[i]) <= PreviewCut(t)}))

\* One iteration of the statement loop of apply_migration.  When the
\* statement fails, the closure of with_context builds the preview; a panic
\* there unwinds out of the call (the transaction is dropped on the way, or
\* the connection is closed with the process: the server rolls back) and no
\* Err reaches the caller.
ApplyStmt(p) ==
    /\ pr[p].pc = "stmt"
    /\ LET m == Cur(p)
           stmts == split_sql_statements(m.up_sql)
           si == pr[p].si
           trimmed == CleanedTrimmed(stmts[si])
           next == AfterStatement(Len(stmts), si + 1)
       IN  IF trimmed = <<>>
           THEN /\ pr' = [pr EXCEPT ![p] = [pr[p] EXCEPT !.si = si + 1, !.pc = next]]
                /\ UNCHANGED <<db, hist, faults>>
           ELSE \E f \in FaultChoices :
                  LET cmd == DbCommand(View(db, pr[p].tx.ops), trimmed)
                      sent == [pr[p] EXCEPT !.faulted = pr[p].faulted \/ f,
                                            !.events = pr[p].events \o <<Ev("exec", m.id, si, "")>>]
                  IN  /\ ~Conflicts(p, cmd)
                      /\ faults' = Bump(f)
                      /\ IF (f \/ cmd = <<"error">>) /\ PreviewPanics(trimmed)
                         THEN /\ pr' = [pr EXCEPT ![p] =
                                          [sent EXCEPT
                                             !.pc = "panicked", !.tx = NoTx,
                                             !.events = sent.events \o <<Ev("fail", m.id, si, "stmt")>>]]
                              /\ db' = DropTx(db, pr[p].tx.ops)
                              /\ hist' = hist
                         ELSE IF f \/ cmd = <<"error">>
                         THEN LET out == ReturnErr(
                                      [sent EXCEPT !.events = sent.events \o <<Ev("fail", m.id, si, "stmt")>>],
                                      ApplyErr(m.id, <<<<"SQL error", Preview(trimmed)>>,
                                                       <<"db">>>>))
                              IN  /\ pr' = [pr EXCEPT ![p] = out]
                                  /\ db' = DropTx(db, pr[p].tx.ops)
                                  /\ hist' = Append(hist, Completed(p, out, db'))
                         ELSE /\ pr' = [pr EXCEPT ![p] =
                                          [sent EXCEPT !.tx.ops = Append(sent.tx.ops, cmd),
                                                       !.si = si + 1, !.pc = next]]
                              /\ hist' = hist
                              /\ db' = db
    /\ UNCHANGED <<registry, calls, now, split_sql, split_out>>

\* The tracking row apply_migration inserts.
TrackingRow(m, started) ==
    [id |-> m.id, description |-> m.description,
     checksum |-> calculate_checksum(m.up_sql), applied_at |-> started]

\* INSERT INTO migrations (id, description, checksum), inside the transaction.
ApplyInsert(p) ==
    /\ pr[p].pc = "insert"
    /\ \E f \in FaultChoices :
         LET m == Cur(p)
             v == View(db, pr[p].tx.ops)
             ok == ~f /\ v.tracking /\ m.id \notin RowIds(v)
             rec == [pr[p] EXCEPT !.faulted = pr[p].faulted \/ f]
         IN  /\ ~Conflicts(p, <<"insert", TrackingRow(m, pr[p].tx.started)>>)
             /\ faults' = Bump(f)
             /\ IF ok
                THEN /\ pr' = [pr EXCEPT ![p] =
                                 [rec EXCEPT
                                    !.tx.ops = Append(rec.tx.ops, <<"insert",
                                                  TrackingRow(m, pr[p].tx.started)>>),
                                    !.pc = "commit",
                                    !.events = rec.events \o <<Ev("insert", m.id, 0, "")>>]]
                     /\ hist' = hist
                     /\ db' = db
                ELSE LET out == ReturnErr(
                                  [rec EXCEPT !.events = rec.events \o <<Ev("fail", m.id, 0, "insert")>>],
                                  ApplyErr(m.id, <<<<"db">>>>))
                     IN  /\ pr' = [pr EXCEPT ![p] = out]
                         /\ db' = DropTx(db, pr[p].tx.ops)
                         /\ hist' = Append(hist, Completed(p, out, db'))
    /\ UNCHANGED <<registry, calls, now, split_sql, split_out>>

\* transaction.commit(), then applied_count += 1 and the loop goes on.
ApplyCommit(p) ==
    /\ pr[p].pc = "commit"
    /\ \E f \in FaultChoices :
         LET m == Cur(p)
             rec == [pr[p] EXCEPT !.faulted = pr[p].faulted \/ f]
         IN  /\ faults' = Bump(f)
             /\ IF f
                THEN LET out == ReturnErr(
                                  [rec EXCEPT !.events = rec.events \o <<Ev("fail", m.id, 0, "commit")>>],
                                  ApplyErr(m.id, <<<<"db">>>>))
                     IN  /\ pr' = [pr EXCEPT ![p] = out]
                         /\ db' = DropTx(db, pr[p].tx.ops)
                         /\ hist' = Append(hist, Completed(p, out, db'))
                ELSE /\ db' = Commit(db, pr[p].tx.ops)
                     /\ pr' = [pr EXCEPT ![p] =
                                 [rec EXCEPT !.tx = NoTx, !.pc = "loop",
                                             !.applied_count = rec.applied_count + 1,
                                             !.mi = rec.mi + 1,
                                             !.events = rec.events \o <<Ev("commit", m.id, 0, "")>>]]
                     /\ hist' = hist
    /\ UNCHANGED <<registry, calls, now, split_sql, split_out>>

\* --------------------------------------------------------- rollback_migration
\* Find falling back to the first migration when the id is unknown.
FindOrFirst(migrations, id) ==
    IF \E i \in 1..Len(migrations) : migrations[i].id = id
    THEN CHOOSE i \in 1..Len(migrations) :
            /\ migrations[i].id = id
            /\ \A j \in 1..(i - 1) : migrations[j].id # id
    ELSE 1

\* migrations.iter().find(|m| m.id == migration_id): index of the first
\* migration with that id, 0 for None.
Find(migrations, id) ==
    IF \E i \in 1..Len(migrations) : migrations[i].id = id
    THEN CHOOSE i \in 1..Len(migrations) :
            /\ migrations[i].id = id
            /\ \A j \in 1..(i - 1) : migrations[j].id # id
    ELSE 0

\* Where rollback_migration goes after statement number si - 1 of n.
AfterDownStatement(n, si) == IF si > n THEN "rb_delete" ELSE "rb_stmt"

\* The down-script of the migration being rolled back.
DownSql(p) == get_all_migrations[pr[p].mi].down_sql[2]

RollbackIds == {get_all_migrations[i].id : i \in 1..Len(get_all_migrations)} \cup {UnknownId}

\* Entry of rollback_migration: the lookup, the down-script test and, when
\* there is a down-script, the start of its transaction.
rollback_migration(p, migration_id) ==
    /\ pr[p].pc = "idle"
    /\ calls < MaxCalls
    /\ calls' = calls + 1
    /\ LET k == Find(get_all_migrations, migration_id)
           rec == Enter("rollback_migration", migration_id)
       IN  IF k = 0
           THEN LET out == ReturnErr(rec, <<<<"Migration not found">>>>)
                IN  /\ pr' = [pr EXCEPT ![p] = out]
                    /\ hist' = Append(hist, Completed(p, out, db))
                    /\ UNCHANGED <<faults, now>>
           ELSE IF get_all_migrations[k].down_sql = NoDown
           THEN LET out == ReturnOk([rec EXCEPT !.mi = k])
                IN  /\ pr' = [pr EXCEPT ![p] = out]
                    /\ hist' = Append(hist, Completed(p, out, db))
                    /\ UNCHANGED <<faults, now>>
           ELSE \E f \in FaultChoices :
                  LET r2 == [rec EXCEPT !.mi = k, !.faulted = f] IN
                  /\ faults' = Bump(f)
                  /\ IF f
                     THEN LET out == ReturnErr(
                                  [r2 EXCEPT !.events = <<Ev("rb_fail", migration_id, 0, "begin")>>],
                                  <<<<"db">>>>)
                          IN  /\ pr' = [pr EXCEPT ![p] = out]
                              /\ hist' = Append(hist, Completed(p, out, db))
                              /\ now' = now
                     ELSE /\ pr' = [pr EXCEPT ![p] =
                                      [r2 EXCEPT
                                         !.tx = [open |-> TRUE, ops |-> <<>>,
                                                 started |-> now + 1],
                                         !.si = 1,
                                         !.pc = AfterDownStatement(
                                                  Len(split_sql_statements(
                                                        get_all_migrations[k].down_sql[2])), 1),
                                         !.events = <<Ev("rb_begin", migration_id, 0, "")>>]]
                          /\ hist' = hist
                          /\ now' = now + 1
    /\ UNCHANGED <<db, registry, split_sql, split_out>>

\* One iteration of the statement loop of rollback_migration: the statement
\* is trimmed only.
RollbackStmt(p) ==
    /\ pr[p].pc = "rb_stmt"
    /\ LET stmts == split_sql_statements(DownSql(p))
           si == pr[p].si
           trimmed == Trim(stmts[si])
           next == AfterDownStatement(Len(stmts), si + 1)
       IN  IF trimmed = <<>>
           THEN /\ pr' = [pr EXCEPT ![p] = [pr[p] EXCEPT !.si = si + 1, !.pc = next]]
                /\ UNCHANGED <<db, hist, faults>>
           ELSE \E f \in FaultChoices :
                  LET cmd == DbCommand(View(db, pr[p].tx.ops), trimmed)
                      sent == [pr[p] EXCEPT !.faulted = pr[p].faulted \/ f,
                                            !.events = pr[p].events \o <<Ev("rb_exec", pr[p].arg, si, "")>>]
                  IN  /\ faults' = Bump(f)
                      /\ IF f \/ cmd = <<"error">>
                         THEN LET out == ReturnErr(
                                      [sent EXCEPT !.events = sent.events \o <<Ev("rb_fail", pr[p].arg, si, "stmt")>>],
                                      <<<<"db">>>>)
                              IN  /\ pr' = [pr EXCEPT ![p] = out]
                                  /\ db' = DropTx(db, pr[p].tx.ops)
                                  /\ hist' = Append(hist, Completed(p, out, db'))
                         ELSE /\ pr' = [pr EXCEPT ![p] =
                                          [sent EXCEPT !.tx.ops = Append(sent.tx.ops, cmd),
                                                       !.si = si + 1, !.pc = next]]
                              /\ hist' = hist
                              /\ db' = db
    /\ UNCHANGED <<registry, calls, now, split_sql, split_out>>

\* RollbackDelete that fails when the DELETE matches no row: a migration
\* that is not recorded as applied cannot be rolled back.
RollbackDeleteStrict(p) ==
    /\ pr[p].pc = "rb_delete"
    /\ \E f \in FaultChoices :
         LET v == View(db, pr[p].tx.ops)
             ok == ~f /\ v.tracking /\ pr[p].arg \in RowIds(v)
             rec == [pr[p] EXCEPT !.faulted = pr[p].faulted \/ f]
         IN  /\ faults' = Bump(f)
             /\ IF ok
                THEN /\ pr' = [pr EXCEPT ![p] =
                                 [rec EXCEPT
                                    !.tx.ops = Append(rec.tx.ops, <<"delete", pr[p].arg>>),
                                    !.pc = "rb_commit",
                                    !.events = rec.events \o <<Ev("rb_delete", pr[p].arg, 0, "")>>]]
                     /\ hist' = hist
                     /\ db' = db
                ELSE LET out == ReturnErr(
                                  [rec EXCEPT !.events = rec.events \o <<Ev("rb_fail", pr[p].arg, 0, "delete")>>],
                                  <<<<"db">>>>)
                     IN  /\ pr' = [pr EXCEPT ![p] = out]
                         /\ db' = DropTx(db, pr[p].tx.ops)
                         /\ hist' = Append(hist, Completed(p, out, db'))
    /\ UNCHANGED <<registry, calls, now, split_sql, split_out>>

\* DELETE FROM migrations WHERE id = $1, inside the transaction.
RollbackDelete(p) ==
    /\ pr[p].pc = "rb_delete"
    /\ \E f \in FaultChoices :
         LET v == View(db, pr[p].tx.ops)
             ok == ~f /\ v.tracking
             rec == [pr[p] EXCEPT !.faulted = pr[p].faulted \/ f]
         IN  /\ faults' = Bump(f)
             /\ IF ok
                THEN /\ pr' = [pr EXCEPT ![p] =
                                 [rec EXCEPT
                                    !.tx.ops = Append(rec.tx.ops, <<"delete", pr[p].arg>>),
                                    !.pc = "rb_commit",
                                    !.events = rec.events \o <<Ev("rb_delete", pr[p].arg, 0, "")>>]]
                     /\ hist' = hist
                     /\ db' = db
                ELSE LET out == ReturnErr(
                                  [rec EXCEPT !.events = rec.events \o <<Ev("rb_fail", pr[p].arg, 0, "delete")>>],
                                  <<<<"db">>>>)
                     IN  /\ pr' = [pr EXCEPT ![p] = out]
                         /\ db' = DropTx(db, pr[p].tx.ops)
                         /\ hist' = Append(hist, Completed(p, out, db'))
    /\ UNCHANGED <<registry, calls, now, split_sql, split_out>>

\* tx.commit() of rollback_migration, then Ok(()).
RollbackCommit(p) ==
    /\ pr[p].pc = "rb_commit"
    /\ \E f \in FaultChoices :
         LET rec == [pr[p] EXCEPT !.faulted = pr[p].faulted \/ f] IN
         /\ faults' = Bump(f)
         /\ IF f
            THEN LET out == ReturnErr(
                              [rec EXCEPT !.events = rec.events \o <<Ev("rb_fail", pr[p].arg, 0, "commit")>>],
                              <<<<"db">>>>)
                 IN  /\ pr' = [pr EXCEPT ![p] = out]
                     /\ db' = DropTx(db, pr[p].tx.ops)
                     /\ hist' = Append(hist, Completed(p, out, db'))
            ELSE LET out == ReturnOk(
                              [rec EXCEPT !.events = rec.events \o <<Ev("rb_commit", pr[p].arg, 0, "")>>])
                 IN  /\ db' = Commit(db, pr[p].tx.ops)
                     /\ pr' = [pr EXCEPT ![p] = out]
                     /\ hist' = Append(hist, Completed(p, out, db'))
    /\ UNCHANGED <<registry, calls, now, split_sql, split_out>>

\* ------------------------------------------------------------ specification
\* One caller, one operation at a time: the runner executes synchronously
\* during process startup.
Next ==
    \/ create_migrations_table(Runner)
    \/ RunFetch(Runner)
    \/ RunBegin(Runner)
    \/ RunFinish(Runner)
    \/ ApplyStmt(Runner)
    \/ ApplyInsert(Runner)
    \/ ApplyCommit(Runner)
    \/ \E id \in RollbackIds : rollback_migration(Runner, id)
    \/ RollbackStmt(Runner)
    \/ RollbackDelete(Runner)
    \/ RollbackCommit(Runner)

Spec == Init /\ [][Next]_vars

\* A call that has started runs to its return: run_all_migrations is one
\* sequential async function, every await in it is a database round trip
\* that comes back with a result or an error.
RunSteps ==
    \/ RunBegin(Runner)
    \/ ApplyStmt(Runner)
    \/ ApplyInsert(Runner)
    \/ ApplyCommit(Runner)
    \/ RunFinish(Runner)

\* A call of run_all_migrations is under way: exactly the states in which one
\* of RunSteps can be taken (a single caller is never made to wait, and each
\* of the steps changes pr[Runner]).
RunBusy == pr[Runner].pc \in {"loop", "stmt", "insert", "commit"}

\* Weak fairness of RunSteps, WF_vars(RunSteps), written out with RunBusy for
\* ENABLED <<RunSteps>>_vars: a call under way is not left waiting for ever.
RunFairness == []<>(~RunBusy) \/ []<><<RunSteps>>_vars

FairSpec == Init /\ [][Next]_vars /\ RunFairness

\* Two instances of the service start against the same database: each calls
\* create_migrations_table and run_all_migrations, in any interleaving of
\* their database round trips.
ConcRegistries == {RegistryV1, RegistryComments}

ConcInit ==
    /\ EngineInit(ConcRegistries)
    /\ split_sql = <<>>
    /\ split_out = NotSplit

ConcNext ==
    \E p \in Procs :
       \/ create_migrations_table(p)
       \/ RunFetch(p)
       \/ RunBegin(p)
       \/ RunFinish(p)
       \/ ApplyStmt(p)
       \/ ApplyInsert(p)
       \/ ApplyCommit(p)

ConcSpec == ConcInit /\ [][ConcNext]_vars

\* The engine on a registry whose statements hold multi-byte characters.
PreviewInit ==
    /\ EngineInit({RegistryWide})
    /\ split_sql = <<>>
    /\ split_out = NotSplit

PreviewSpec == PreviewInit /\ [][Next]_vars

\* ------------------------------------------- split_sql_statements alone
\* All texts over the alphabet cs of length at most n.
TextsOver(cs, n) == UNION {[1..k -> cs] : k \in 0..n}

\* The characters the splitter tells apart, a letter standing for the rest.
SplitChars == {"a", ";", "(", ")", " ", "$"}

\* Text before and after a dollar-quoted block: parentheses balanced, no
\* semicolon.
Affixes ==
    {<<>>, <<"a">>, <<"(", ")">>, <<"a", "(", "a", ")">>, <<"(", "(", ")", ")", " ">>}

\* Bodies of a dollar-quoted block: no "$", any semicolons and parentheses.
Bodies == TextsOver({"a", ";", "(", ")"}, MaxBody)

\* prefix $$ body $$ suffix ;
DollarStatement(prefix, body, suffix) ==
    prefix \o <<"$", "$">> \o body \o <<"$", "$">> \o suffix \o <<";">>

DollarTexts == {DollarStatement(x, b, y) : x \in Affixes, b \in Bodies, y \in Affixes}

\* Statements with balanced (nested, multi-line) parenthesised lists, commas
\* inside, no semicolon but the terminator.
ParenStatements ==
    {<<"a", ";">>,
     <<NL, "a", "(", "a", ")", ";">>,
     <<"a", " ", "(", NL, "a", ",", NL, "a", NL, ")", ";">>,
     <<"a", "(", "(", "a", ")", ",", "a", ")", ";">>,
     <<"(", "a", ")", "a", "(", ")", ";">>}

RECURSIVE Concat(_)
\* The statements of a script, one after the other.
Concat(ss) == IF ss = <<>> THEN <<>> ELSE Head(ss) \o Concat(Tail(ss))

\* Scripts of at most MaxStmts such statements.
ParenScripts == UNION {[1..k -> ParenStatements] : k \in 0..MaxStmts}

\* test_sql_splitting: "CREATE TABLE a (id INT);\nCREATE TABLE b (id INT);"
TestTwoTables ==
    <<"C", "a", " ", "(", "i", " ", "j", ")", ";", NL,
      "C", "b", " ", "(", "i", " ", "j", ")", ";">>

\* test_sql_splitting_multiline_table: a multi-line CREATE TABLE with a
\* nested parenthesis, then a CREATE INDEX.
TestMultiline ==
    <<NL, "C", "a", " ", "(", NL, " ", "i", ",", NL, " ", "j", "(", "d", ")", NL, ")", ";", NL,
      "C", "i", " ", "a", "(", "j", ")", ";", NL>>

\* Text after a comment line or a string literal.
Tails == {<<>>, <<"a", ";">>, <<")", ";">>, <<"(", ";", ")", ";">>}

\* A "--" comment holding semicolons and parentheses, then more text.
CommentTexts == {<<"a", " ", "-", "-">> \o b \o <<NL>> \o y : b \in Bodies, y \in Tails}

\* A single-quoted literal holding semicolons and parentheses, then more text.
LiteralTexts == {<<"a", " ", "'">> \o b \o <<"'">> \o y : b \in Bodies, y \in Tails}

\* The texts split_sql_statements is called on.
SplitInputs ==
    TextsOver(SplitChars, MaxLen) \cup DollarTexts
        \cup {Concat(ss) : ss \in ParenScripts}
        \cup {TestTwoTables, TestMultiline, V1Up, V1Down}

SplitterInit ==
    /\ EngineInit({RegistryV1})
    /\ split_sql \in SplitInputs
    /\ split_out = NotSplit

\* A call of split_sql_statements on its own (the unit tests call it so).
SplitCall ==
    /\ ~split_out.done
    /\ split_out' = [done |-> TRUE, statements |-> split_sql_statements(split_sql)]
    /\ UNCHANGED <<db, registry, pr, hist, calls, faults, now, split_sql>>

SplitNext == SplitCall

SplitSpec == SplitterInit /\ [][SplitNext]_vars

\* The texts on which the scan is followed character by character: all short
\* texts, dollar-quoted blocks, comments and literals, the test scripts and
\* the shipped scripts.
ScanInputs ==
    TextsOver(SplitChars, MaxLen) \cup DollarTexts
        \cup CommentTexts \cup LiteralTexts
        \cup {TestTwoTables, TestMultiline, V1Up, V1Down}

ScanInit ==
    /\ EngineInit({RegistryV1})
    /\ split_sql \in ScanInputs
    /\ split_out = NotSplit

ScanNext == SplitCall

ScanSpec == ScanInit /\ [][ScanNext]_vars

\* ------------------------------------------------- a changed registry
\* The registry with the up-script of migration k edited: a comment line is
\* added at its end, its statements stay the same.
EditedRegistry(reg, k) ==
    [reg EXCEPT ![k].up_sql = reg[k].up_sql \o <<NL, "-", "-", " ", "e">>]

\* A new build of the program is started between two calls: get_all_migrations
\* now returns the same ids with one edited up-script.
Deploy ==
    /\ \A p \in Procs : pr[p].pc = "idle"
    /\ registry \in Registries
    /\ \E k \in 1..Len(registry) : registry' = EditedRegistry(registry, k)
    /\ UNCHANGED <<db, pr, hist, calls, faults, now, split_sql, split_out>>

DriftNext == Next \/ Deploy

DriftSpec == Init /\ [][DriftNext]_vars

\* ================================================================= claims
RunAll == "run_all_migrations"
Rollback == "rollback_migration"
RegIdx == 1..Len(registry)

\* The objects the up-script of m creates, as the runner hands it to the
\* database statement by statement.
UpObjs(m) ==
    LET sent == {CleanedTrimmed(s) : s \in Range(split_sql_statements(m.up_sql))}
        creates == {t \in sent : t # <<>> /\ Head(DbSkipComments(t)) = "C"}
    IN  {DbObject(DbSkipComments(t)) : t \in creates}

\* Indices of the statements of the up-script that are sent to the database.
SentIdx(m) ==
    {i \in 1..Len(split_sql_statements(m.up_sql)) :
        CleanedTrimmed(split_sql_statements(m.up_sql)[i]) # <<>>}

\* Database d shows some but not all of what applying m leaves behind.
Partial(d, m) ==
    LET vis == UpObjs(m) \cap d.objs
        row == m.id \in RowIds(d)
    IN  ~((vis = {} /\ ~row) \/ (vis = UpObjs(m) /\ row))

C1_NoPartial == \A i \in RegIdx : ~Partial(db, registry[i])

C1_Step ==
    \A p \in Procs :
      /\ (pr[p].pc \in {"stmt", "insert", "commit"} /\ pr'[p].pc = "idle")
            => (pr'[p].ret.status = "Err" /\ db' = db /\ ~pr'[p].tx.open)
      /\ (pr[p].pc = "commit" /\ pr'[p].pc = "loop")
            => LET m == registry[pr[p].mi] IN
               /\ UpObjs(m) \cap db.objs = {} /\ m.id \notin RowIds(db)
               /\ UpObjs(m) \subseteq db'.objs /\ m.id \in RowIds(db')

\* C1: apply atomicity.  A step in which apply_migration fails (at a
\* statement, at the tracking-row INSERT or at the commit) leaves the
\* committed database exactly as it was; the commit step makes all the
\* objects of the up-script and the tracking row visible together; and no
\* committed state shows some but not all of a migration's effects.
C1_ApplyAtomic == []C1_NoPartial /\ [][C1_Step]_vars

\* A run failed at the second or a later statement of a migration, after
\* earlier statements of the same migration had executed in the transaction.
C1_Witness ==
    \E i \in 1..Len(hist) :
        /\ hist[i].op = RunAll
        /\ hist[i].events # <<>>
        /\ LET e == hist[i].events[Len(hist[i].events)] IN
           e.kind = "fail" /\ e.stage = "stmt" /\ e.si >= 2

\* Everything asked of the database so far, oldest first (one caller).
RECURSIVE HistEvents(_)
HistEvents(h) == IF h = <<>> THEN <<>> ELSE HistEvents(SubSeq(h, 1, Len(h) - 1)) \o h[Len(h)].events
Timeline == HistEvents(hist) \o (IF pr[Runner].pc = "idle" THEN <<>> ELSE pr[Runner].events)

\* Position c of the timeline is the commit of a transaction of m in which
\* every sent statement of the up-script was executed, in order.
FullApplyAt(t, c, m) ==
    LET idx == SentIdx(m)
        n == Cardinality(idx)
    IN  /\ t[c].kind = "commit" /\ t[c].id = m.id
        /\ \E b \in 1..(c - 1) :
              /\ t[b].kind = "begin" /\ t[b].id = m.id
              /\ c \in {b + n + 1, b + n + 2}
              /\ c = b + n + 2 => t[c - 1].kind = "insert"
              /\ \A j \in 1..n :
                    /\ t[b + j].kind = "exec"
                    /\ t[b + j].si \in idx
                    /\ j > 1 => t[b + j].si > t[b + j - 1].si

\* The up-script of m has been fully and successfully executed and committed,
\* and no rollback of m has committed since.
AppliedNotRolledBack(m) ==
    \E c \in 1..Len(Timeline) :
        /\ FullApplyAt(Timeline, c, m)
        /\ \A k \in (c + 1)..Len(Timeline) :
              ~(Timeline[k].kind = "rb_commit" /\ Timeline[k].id = m.id)

\* C2: tracking-store invariant.  In every committed state a row with id m
\* is in the migrations table exactly when m's up-script has been fully and
\* successfully executed (and committed) and not rolled back since.
C2_TrackingIff ==
    \A i \in RegIdx :
        (registry[i].id \in RowIds(db)) <=> AppliedNotRolledBack(registry[i])

\* A migration was applied and later rolled back, and another is still applied.
C2_Witness ==
    /\ pr[Runner].pc = "idle"
    /\ \E i, j \in RegIdx :
         /\ registry[i].id \notin RowIds(db)
         /\ \E k \in 1..Len(Timeline) :
               Timeline[k].kind = "rb_commit" /\ Timeline[k].id = registry[i].id
         /\ registry[j].id \in RowIds(db)

\* C3: no re-execution.  In a run of run_all_migrations no transaction is
\* begun and no statement is executed for a migration whose id was in the
\* applied set the run read.
C3_NoReExecution ==
    /\ \A p \in Procs :
          pr[p].op = RunAll =>
             \A k \in 1..Len(pr[p].events) : pr[p].events[k].id \notin Range(pr[p].applied)
    /\ \A i \in 1..Len(hist) :
          hist[i].op = RunAll =>
             \A k \in 1..Len(hist[i].events) : hist[i].events[k].id \notin Range(hist[i].applied)

\* A run that read a non-empty applied set, skipped those migrations and
\* went on to a pending one.
C3_Witness ==
    \E i \in 1..Len(hist) :
        /\ hist[i].op = RunAll
        /\ hist[i].applied # <<>>
        /\ hist[i].events # <<>>

\* The ids of the registry, in declaration order.
RegIds == [i \in RegIdx |-> registry[i].id]

\* The registry index of an id.
IdxOf(id) == CHOOSE i \in RegIdx : registry[i].id = id

\* The ids of the events of the given kinds, in order.
RECURSIVE IdsOf(_, _)
IdsOf(kinds, ev) ==
    IF ev = <<>> THEN <<>>
    ELSE (IF Head(ev).kind \in kinds THEN <<Head(ev).id>> ELSE <<>>) \o IdsOf(kinds, Tail(ev))

\* The registry ids that are not in the applied snapshot, in declaration order.
RECURSIVE PendingFrom(_, _)
PendingFrom(i, applied) ==
    IF i > Len(registry) THEN <<>>
    ELSE (IF registry[i].id \in Range(applied) THEN <<>> ELSE <<registry[i].id>>)
         \o PendingFrom(i + 1, applied)

IsPrefix(s, t) == Len(s) <= Len(t) /\ SubSeq(t, 1, Len(s)) = s

\* C4: run-level idempotence.  A successful run on an empty tracking table
\* applies all N migrations of the registry; a run that directly follows a
\* successful run opens no transaction, executes nothing, leaves the database
\* unchanged and, unless the database fails the read, succeeds with count 0.
C4_Idempotent ==
    \A i \in 1..Len(hist) :
        (hist[i].op = RunAll /\ hist[i].status = "Ok") =>
          /\ (hist[i].db0.tracking /\ hist[i].db0.rows = {}) =>
                /\ hist[i].applied_count = Len(registry)
                /\ IdsOf({"commit"}, hist[i].events) = RegIds
                /\ RowIds(hist[i].db1) = Range(RegIds)
          /\ (i + 1 <= Len(hist) /\ hist[i + 1].op = RunAll) =>
                /\ hist[i + 1].events = <<>>
                /\ hist[i + 1].db1 = hist[i + 1].db0
                /\ hist[i + 1].db0 = hist[i].db1
                /\ ~hist[i + 1].faulted =>
                      /\ hist[i + 1].status = "Ok"
                      /\ hist[i + 1].applied_count = 0

\* Two runs in a row on a registry of three migrations: the first applied
\* all three on an empty tracking table, the second applied none.
C4_Witness ==
    \E i \in 1..Len(hist) :
        /\ i + 1 <= Len(hist)
        /\ Len(registry) = 3
        /\ hist[i].op = RunAll /\ hist[i].status = "Ok"
        /\ hist[i].db0.tracking /\ hist[i].db0.rows = {}
        /\ hist[i].applied_count = 3
        /\ hist[i + 1].op = RunAll /\ hist[i + 1].status = "Ok"
        /\ hist[i + 1].applied_count = 0

\* The events of a run respect declaration order.
InDeclarationOrder(applied, ev) ==
    /\ IsPrefix(IdsOf({"begin"}, ev) , PendingFrom(1, applied))
    /\ \A k \in 1..Len(ev) :
          ev[k].kind = "begin" =>
             \A a \in RegIdx :
                (a < IdxOf(ev[k].id) /\ registry[a].id \notin Range(applied)) =>
                   \E j \in 1..(k - 1) : ev[j].kind = "commit" /\ ev[j].id = registry[a].id

\* C5: declaration order.  The transactions a run begins are, in order, those
\* of the pending migrations as the registry declares them, and a migration's
\* transaction begins only after the transaction of every pending migration
\* declared before it has committed.
C5_DeclarationOrder ==
    /\ \A p \in Procs : pr[p].op = RunAll => InDeclarationOrder(pr[p].applied, pr[p].events)
    /\ \A i \in 1..Len(hist) :
          hist[i].op = RunAll => InDeclarationOrder(hist[i].applied, hist[i].events)

\* b_second was committed before a_first began, in one run.
C5_Witness ==
    \E i \in 1..Len(hist) :
        /\ hist[i].op = RunAll
        /\ Len(IdsOf({"commit"}, hist[i].events)) >= 2
        /\ IdsOf({"commit"}, hist[i].events)[1] = "b_second"
        /\ IdsOf({"commit"}, hist[i].events)[2] = "a_first"

\* A failure is the last thing the run did, and the run returned Err.
StopsAtFailure(ev, returnedErr) ==
    \A k \in 1..Len(ev) :
        ev[k].kind = "fail" =>
           /\ k = Len(ev)
           /\ returnedErr
           /\ \A j \in 1..Len(ev) : IdxOf(ev[j].id) <= IdxOf(ev[k].id)

\* C6: stop on first failure.  When applying a migration fails, the run has
\* returned an error in that same step, and it begins no transaction and
\* executes no statement for any migration declared after the failed one.
C6_StopOnFailure ==
    /\ \A p \in Procs :
          pr[p].op = RunAll =>
             StopsAtFailure(pr[p].events, pr[p].pc = "idle" /\ pr[p].ret.status = "Err")
    /\ \A i \in 1..Len(hist) :
          hist[i].op = RunAll => StopsAtFailure(hist[i].events, hist[i].status = "Err")

\* A run committed a migration, then failed at a statement of a migration
\* that is not the last of the registry.
C6_Witness ==
    \E i \in 1..Len(hist) :
        /\ hist[i].op = RunAll /\ hist[i].status = "Err"
        /\ hist[i].events # <<>>
        /\ IdsOf({"commit"}, hist[i].events) # <<>>
        /\ LET e == hist[i].events[Len(hist[i].events)] IN
           e.kind = "fail" /\ e.stage = "stmt" /\ IdxOf(e.id) < Len(registry)

\* The registry ids from index i on.
IdsFrom(i) == SubSeq(RegIds, i, Len(registry))

\* Run number i of the history failed at a migration.
FailedAt(i) ==
    /\ hist[i].op = RunAll
    /\ hist[i].events # <<>>
    /\ hist[i].events[Len(hist[i].events)].kind = "fail"

\* The events of the run that follows a run that failed at migration k.
ResumesAt(k, ev) ==
    /\ ev # <<>> => ev[1].id = k
    /\ IsPrefix(IdsOf({"begin"}, ev), IdsFrom(IdxOf(k)))

\* C7: resumability.  After a run failed at migration k, the migrations that
\* run committed are applied (objects and tracking row), k has left neither
\* an object nor a tracking row, and the next run, if it directly follows,
\* starts at k and goes on through the rest of the registry in order.
C7_Resumable ==
    \A i \in 1..Len(hist) :
        FailedAt(i) =>
          LET k == hist[i].events[Len(hist[i].events)].id
              done == Range(IdsOf({"commit"}, hist[i].events))
          IN  /\ \A a \in RegIdx :
                    registry[a].id \in done =>
                       /\ registry[a].id \in RowIds(hist[i].db1)
                       /\ UpObjs(registry[a]) \subseteq hist[i].db1.objs
              /\ k \notin RowIds(hist[i].db1)
              /\ UpObjs(registry[IdxOf(k)]) \cap hist[i].db1.objs = {}
              /\ (i + 1 <= Len(hist) /\ hist[i + 1].op = RunAll) =>
                    ResumesAt(k, hist[i + 1].events)
              /\ (i = Len(hist) /\ pr[Runner].op = RunAll /\ pr[Runner].pc # "idle") =>
                    ResumesAt(k, pr[Runner].events)

\* A run applied one migration and failed at the second; the next run
\* started at the second and committed it.
C7_Witness ==
    \E i \in 1..Len(hist) :
        /\ i + 1 <= Len(hist)
        /\ FailedAt(i)
        /\ IdsOf({"commit"}, hist[i].events) # <<>>
        /\ hist[i + 1].op = RunAll
        /\ IdsOf({"commit"}, hist[i + 1].events) # <<>>
        /\ IdsOf({"commit"}, hist[i + 1].events)[1]
              = hist[i].events[Len(hist[i].events)].id

\* The statement "run_all_migrations returns the count of migrations newly
\* applied": the value of a successful call is that count.
C8_ReturnsCount ==
    \A i \in 1..Len(hist) :
        (hist[i].op = RunAll /\ hist[i].status = "Ok") =>
           hist[i].payload = <<hist[i].applied_count>>

\* C8 (as the code has it): a successful run_all_migrations returns the unit
\* value; the count of migrations newly applied in the run (its commits, the
\* tracking rows it added) is only written to the log, as "applied n" when
\* n > 0 and as "up to date" when n = 0, and n = 0 is a success.
C8_CountLogged ==
    \A i \in 1..Len(hist) :
        (hist[i].op = RunAll /\ hist[i].status = "Ok") =>
           LET n == Len(IdsOf({"commit"}, hist[i].events)) IN
           /\ hist[i].payload = <<>>
           /\ hist[i].applied_count = n
           /\ Cardinality(RowIds(hist[i].db1) \ RowIds(hist[i].db0)) = n
           /\ hist[i].logged = IF n > 0 THEN <<"applied", n>> ELSE <<"up_to_date">>

\* One run applied migrations and succeeded, a second succeeded with nothing
\* to apply.
C8_Witness ==
    \E i, j \in 1..Len(hist) :
        /\ hist[i].op = RunAll /\ hist[i].status = "Ok" /\ hist[i].applied_count > 0
        /\ hist[j].op = RunAll /\ hist[j].status = "Ok" /\ hist[j].applied_count = 0

\* The statement "run_all_migrations on a database without the tracking table
\* creates the table and proceeds": after such a run, not disturbed by a
\* database fault, the table exists.
C9_RunBootstraps ==
    \A i \in 1..Len(hist) :
        (hist[i].op = RunAll /\ ~hist[i].db0.tracking /\ hist[i].db0.schema
            /\ ~hist[i].faulted) => hist[i].db1.tracking

FetchError == <<<<"Failed to fetch applied migrations">>, <<"db">>>>

\* C9 (as the code has it): the bootstrap is create_migrations_table, a
\* separate operation: when it succeeds the table exists and the rows and
\* objects are as before (an existing table is left unchanged).
\* run_all_migrations does not create the table: its first database request
\* is the read of the applied ids, and on a database without the table it
\* fails on that read, begins nothing and leaves the database unchanged.
C9_BootstrapSeparate ==
    \A i \in 1..Len(hist) :
        /\ (hist[i].op = "create_migrations_table" /\ hist[i].status = "Ok") =>
              /\ hist[i].db1.tracking
              /\ hist[i].db1.rows = hist[i].db0.rows
              /\ hist[i].db1.objs = hist[i].db0.objs
              /\ hist[i].db0.tracking => hist[i].db1 = hist[i].db0
        /\ (hist[i].op = RunAll /\ ~hist[i].db0.tracking) =>
              /\ hist[i].status = "Err"
              /\ hist[i].err = FetchError
              /\ hist[i].events = <<>>
              /\ hist[i].db1 = hist[i].db0

\* run_all_migrations failed on a database without the table; after
\* create_migrations_table a second run applied migrations; a second
\* create_migrations_table is not needed for that.
C9_Witness ==
    /\ Len(hist) >= 3
    /\ hist[1].op = RunAll /\ ~hist[1].db0.tracking /\ hist[1].status = "Err"
    /\ hist[2].op = "create_migrations_table" /\ hist[2].status = "Ok"
    /\ hist[3].op = RunAll /\ hist[3].status = "Ok" /\ hist[3].applied_count > 0

\* C10: rollback_migration with an id the registry does not declare returns
\* the error "Migration not found", asks nothing of the database (no
\* transaction, no statement) and leaves the database unchanged.
C10_UnknownIdRollback ==
    /\ \A p \in Procs :
          (pr[p].op = Rollback /\ pr[p].arg \notin Range(RegIds)) =>
             /\ pr[p].pc = "idle"
             /\ ~pr[p].tx.open
             /\ pr[p].events = <<>>
             /\ pr[p].ret.status = "Err"
    /\ \A i \in 1..Len(hist) :
          (hist[i].op = Rollback /\ hist[i].arg \notin Range(RegIds)) =>
             /\ hist[i].status = "Err"
             /\ hist[i].err = <<<<"Migration not found">>>>
             /\ hist[i].events = <<>>
             /\ hist[i].db1 = hist[i].db0
             /\ ~hist[i].faulted

\* rollback_migration was called with an unknown id on a database that holds
\* applied migrations.
C10_Witness ==
    \E i \in 1..Len(hist) :
        /\ hist[i].op = Rollback
        /\ hist[i].arg = UnknownId
        /\ hist[i].db0.rows # {}
        /\ hist[i].db0.objs # {}

\* ------------------------------------------------------- rollback claims
\* The registry migration a rollback call names.
RegOf(id) == registry[IdxOf(id)]

\* Indices of the statements of the down-script that rollback_migration
\* sends to the database.
DownSentIdx(m) ==
    {i \in 1..Len(split_sql_statements(m.down_sql[2])) :
        Trim(split_sql_statements(m.down_sql[2])[i]) # <<>>}

\* The objects the down-script of m drops.
DownObjs(m) ==
    LET sent == {Trim(t) : t \in Range(split_sql_statements(m.down_sql[2]))}
        cmds == {DbSkipComments(t) : t \in sent} \ {<<>>}
        drops == {t \in cmds : Head(t) = "D"}
    IN  {DbObject(t) : t \in drops}

\* The statement indices of the rb_exec events, in order.
RECURSIVE ExecIdx(_)
ExecIdx(ev) ==
    IF ev = <<>> THEN <<>>
    ELSE (IF Head(ev).kind = "rb_exec" THEN <<Head(ev).si>> ELSE <<>>) \o ExecIdx(Tail(ev))

\* Call h of the history is a rollback of a registry migration.
IsRollbackOf(h) == h.op = Rollback /\ h.arg \in Range(RegIds)

\* Every statement of the down-script was sent, in source order, and none
\* of them failed.
DownAllSucceeded(h) ==
    LET m == RegOf(h.arg)
        x == ExecIdx(h.events)
    IN  /\ Range(x) = DownSentIdx(m)
        /\ \A j \in 1..(Len(x) - 1) : x[j] < x[j + 1]
        /\ \A k \in 1..Len(h.events) :
              ~(h.events[k].kind = "rb_fail" /\ h.events[k].stage \in {"begin", "stmt"})

\* C11, as the specification states it: rollback_migration called with the
\* id of a registry migration that has no down-script returns an error to
\* the caller and makes no database change.
C11_NoDownIsError ==
    \A i \in 1..Len(hist) :
        (IsRollbackOf(hist[i]) /\ RegOf(hist[i].arg).down_sql = NoDown) =>
           /\ hist[i].status = "Err"
           /\ hist[i].db1 = hist[i].db0

\* C12, as the specification states it: when an applied migration with a
\* down-script is rolled back and every statement of the down-script
\* succeeds (no database fault), the call deletes the tracking row, commits
\* and returns success; afterwards the tracking table does not contain the
\* id and the objects the down-script drops are gone.
C12_RollbackCorrect ==
    \A i \in 1..Len(hist) :
        (/\ IsRollbackOf(hist[i])
         /\ RegOf(hist[i].arg).down_sql # NoDown
         /\ hist[i].arg \in RowIds(hist[i].db0)
         /\ ~hist[i].faulted
         /\ DownAllSucceeded(hist[i])) =>
           /\ hist[i].status = "Ok"
           /\ hist[i].events[Len(hist[i].events)].kind = "rb_commit"
           /\ hist[i].events[Len(hist[i].events) - 1].kind = "rb_delete"
           /\ hist[i].arg \notin RowIds(hist[i].db1)
           /\ DownObjs(RegOf(hist[i].arg)) \cap hist[i].db1.objs = {}

C13_Step ==
    \A p \in Procs :
      /\ (pr[p].pc \in {"rb_stmt", "rb_delete", "rb_commit"} /\ pr'[p].pc = "idle"
            /\ pr'[p].ret.status = "Err")
            => (db' = db /\ ~pr'[p].tx.open)
      /\ (pr[p].op = Rollback /\ pr[p].pc # "idle" /\ db' # db)
            => /\ pr[p].pc = "rb_commit"
               /\ pr'[p].pc = "idle" /\ pr'[p].ret.status = "Ok"
               /\ pr[p].tx.ops # <<>>
               /\ pr[p].tx.ops[Len(pr[p].tx.ops)] = <<"delete", pr[p].arg>>
               /\ db' = View(db, pr[p].tx.ops)
               /\ pr[p].arg \notin RowIds(db')
               /\ DownObjs(RegOf(pr[p].arg)) \cap db'.objs = {}

C13_Hist ==
    \A i \in 1..Len(hist) :
        IsRollbackOf(hist[i]) =>
           /\ hist[i].status = "Err" => hist[i].db1 = hist[i].db0
           /\ (hist[i].events # <<>>
                 /\ hist[i].events[Len(hist[i].events)].kind = "rb_fail") =>
                    hist[i].status = "Err"
           /\ RowIds(hist[i].db1) # RowIds(hist[i].db0) =>
                 /\ hist[i].status = "Ok"
                 /\ hist[i].events[Len(hist[i].events)].kind = "rb_commit"

\* C13: rollback atomicity.  A step in which rollback_migration fails (at a
\* down-script statement, at the tracking-row DELETE or at the commit)
\* returns an error and leaves the committed database exactly as it was,
\* tracking row included; the only step of a rollback that changes the
\* database is its successful commit, which removes the tracking row and
\* makes the down-script's effects visible together.
C13_RollbackAtomic == []C13_Hist /\ [][C13_Step]_vars

\* A rollback of an applied migration failed after statements of its
\* down-script had executed inside the transaction.
C13_Witness ==
    \E i \in 1..Len(hist) :
        /\ IsRollbackOf(hist[i])
        /\ hist[i].status = "Err"
        /\ hist[i].arg \in RowIds(hist[i].db0)
        /\ hist[i].events[Len(hist[i].events)].kind = "rb_fail"
        /\ \E k \in 1..(Len(hist[i].events) - 1) :
              /\ hist[i].events[k].kind = "rb_exec"
              /\ hist[i].events[k + 1].kind # "rb_fail"

\* ------------------------------------------------------- splitter claims
NoDollar(t) == "$" \notin Range(t)

\* Parenthesis depth after character i of t, every "(" counted up and every
\* ")" counted down.
DepthAt(t, i) ==
    Cardinality({j \in 1..i : t[j] = "("}) - Cardinality({j \in 1..i : t[j] = ")"})

\* The same depth with a floor of zero, as the specification describes it.
RECURSIVE FloorDepthAt(_, _)
FloorDepthAt(t, i) ==
    IF i = 0 THEN 0
    ELSE LET d == FloorDepthAt(t, i - 1) IN
         IF t[i] = "(" THEN d + 1
         ELSE IF t[i] = ")" THEN (IF d = 0 THEN 0 ELSE d - 1)
         ELSE d

\* Positions of the semicolons at depth zero.
ZeroSemis(t) == {i \in 1..Len(t) : t[i] = ";" /\ DepthAt(t, i) = 0}
FloorZeroSemis(t) == {i \in 1..Len(t) : t[i] = ";" /\ FloorDepthAt(t, i) = 0}

\* The largest element of a set of positions, 0 for the empty set.
Last(is) == IF is = {} THEN 0 ELSE CHOOSE i \in is : \A j \in is : j <= i

\* The text after the last semicolon at depth zero.
Rest(t) == SubSeq(t, Last(ZeroSemis(t)) + 1, Len(t))

DollarPos(t) == {i \in 1..Len(t) : t[i] = "$"}

\* The smallest element of a non-empty set of positions.
First(is) == CHOOSE i \in is : \A j \in is : i <= j

\* For a text of DollarTexts: the prefix, the text up to and including the
\* closing "$$", and the positions of the body.
PrefixOf(t) == SubSeq(t, 1, First(DollarPos(t)) - 1)
ThroughClosing(t) == SubSeq(t, 1, Last(DollarPos(t)))
BodyPos(t) == (First(DollarPos(t)) + 2)..(Last(DollarPos(t)) - 2)

\* C15: a statement prefix $$ body $$ suffix ; (body without "$", prefix
\* and suffix with balanced parentheses and no semicolon) is returned by
\* split_sql_statements as exactly one statement, the whole text, whatever
\* semicolons and parentheses the body holds; and the parenthesis depth
\* after the closing "$$" is the depth before the opening "$$".
C15_DollarBodyNotSplit ==
    (split_out.done /\ split_sql \in DollarTexts) =>
       /\ split_out.statements = <<split_sql>>
       /\ SplitScan(SplitInit, ThroughClosing(split_sql)).paren_depth
             = SplitScan(SplitInit, PrefixOf(split_sql)).paren_depth
       /\ BodyPos(split_sql) # {} =>
             ~SplitScan(SplitInit, ThroughClosing(split_sql)).in_dollar_quote

\* A statement whose dollar-quoted body holds two semicolons and an
\* unclosed parenthesis, with parentheses before and after the block, has
\* been split.
C15_Witness ==
    /\ split_out.done
    /\ split_sql \in DollarTexts
    /\ Cardinality({i \in BodyPos(split_sql) : split_sql[i] = ";"}) = 2
    /\ \E i \in BodyPos(split_sql) : split_sql[i] = "("
    /\ \A i \in BodyPos(split_sql) : split_sql[i] # ")"
    /\ "(" \in Range(PrefixOf(split_sql))
    /\ split_sql[Len(split_sql) - 1] = ")"

\* The statements of V1Up, as the script is written.
V1UpStatements ==
    << <<NL, "-", "-", " ", "a", NL, "C", "a", ";">>,
       <<NL, "C", "b", "(", "i", "(", "j", ")", ",", ")", ";">>,
       <<NL, NL, "-", "-", " ", "f", NL,
         "C", "f", "$", "$", "b", ";", "c", ";", NL, "$", "$", ";">> >>

\* s holds t as a contiguous part (str::contains).
ContainsText(s, t) ==
    \E i \in 0..(Len(s) - Len(t)) : SubSeq(s, i + 1, i + Len(t)) = t

\* C16: a script made of k statements, each ended by a semicolon at depth
\* zero and holding balanced (nested, multi-line) parenthesised lists with
\* commas and no other semicolon, is split into exactly those k statements,
\* in source order, each with its whole parenthesised list; so are the
\* two-statement scripts of the unit tests (with the assertions the tests
\* make) and the v1_initial_schema up-script, whose first statement is its
\* first command and not a later one.
C16_ParenBodiesNotSplit ==
    split_out.done =>
       /\ \A ss \in ParenScripts :
             split_sql = Concat(ss) => split_out.statements = ss
       /\ split_sql = TestTwoTables => Len(split_out.statements) = 2
       /\ split_sql = TestMultiline =>
             /\ Len(split_out.statements) = 2
             /\ ContainsText(split_out.statements[1], <<"C", "a">>)
             /\ ContainsText(split_out.statements[1], <<"j", "(", "d", ")">>)
             /\ ContainsText(split_out.statements[2], <<"C", "i">>)
             /\ split_out.statements[1] = SubSeq(TestMultiline, 1, 18)
       /\ split_sql = V1Up =>
             /\ split_out.statements = V1UpStatements
             /\ ~StartsWith(Trim(split_out.statements[1]), <<"C", "b">>)
             /\ \E i \in 1..Len(split_out.statements) :
                   ContainsText(split_out.statements[i], <<"C", "b", "(", "i", "(", "j", ")", ",", ")">>)

\* A script of three statements, among them a multi-line list and a nested
\* list, has been split.
C16_Witness ==
    /\ split_out.done
    /\ Len(split_out.statements) = 3
    /\ \E ss \in ParenScripts :
          /\ split_sql = Concat(ss)
          /\ <<"a", " ", "(", NL, "a", ",", NL, "a", NL, ")", ";">> \in Range(ss)
          /\ <<"a", "(", "(", "a", ")", ",", "a", ")", ";">> \in Range(ss)

\* The texts returned, one after the other.
Returned == Concat(split_out.statements)

\* C17: trailing statement.  The statements returned are the text itself cut
\* into pieces, in order, less a remainder that is all white space: text
\* left after the last terminator that is not all white space is returned as
\* one more, final statement, and nothing is returned for an empty or
\* all-white-space remainder (no returned statement is all white space).
C17_TrailingStatement ==
    split_out.done =>
       /\ IsPrefix(Returned, split_sql)
       /\ Trim(SubSeq(split_sql, Len(Returned) + 1, Len(split_sql))) = <<>>
       /\ \A i \in 1..Len(split_out.statements) : Trim(split_out.statements[i]) # <<>>
       /\ \A i \in 1..(Len(split_out.statements) - 1) :
             split_out.statements[i][Len(split_out.statements[i])] = ";"

\* A text has been split whose last statement has no final semicolon and
\* follows a terminated statement.
C17_Witness ==
    /\ split_out.done
    /\ Len(split_out.statements) = 2
    /\ split_out.statements[2][Len(split_out.statements[2])] # ";"
    /\ ";" \notin Range(split_out.statements[2])

\* ------------------------------------------------------ execution claims
\* Every line of the text is blank or a "--" comment.
CommentOnly(text) ==
    \A l \in Range(Lines(text)) : Trim(l) = <<>> \/ StartsWith(Trim(l), <<"-", "-">>)

\* The text an exec or rb_exec event handed to the database.
SentText(e) ==
    IF e.kind = "exec"
    THEN CleanedTrimmed(split_sql_statements(RegOf(e.id).up_sql)[e.si])
    ELSE Trim(split_sql_statements(RegOf(e.id).down_sql[2])[e.si])

\* C18, as the specification states it: on the apply path and on the
\* rollback path no statement that is empty or holds only comments is sent
\* to the database, and a script that consists solely of comments executes
\* zero statements.
C18_NoCommentOnlySent ==
    \A k \in 1..Len(Timeline) :
        Timeline[k].kind \in {"exec", "rb_exec"} =>
           /\ SentText(Timeline[k]) # <<>>
           /\ ~CommentOnly(SentText(Timeline[k]))
           /\ Timeline[k].kind = "exec" => ~CommentOnly(RegOf(Timeline[k].id).up_sql)
           /\ Timeline[k].kind = "rb_exec" => ~CommentOnly(RegOf(Timeline[k].id).down_sql[2])

\* The error a caller of run_all_migrations gets when statement si of
\* migration m fails: the migration's id, the beginning of the statement's
\* text, the database's error.
StatementError(m, si) ==
    << <<"Failed to apply migration", m.id>>,
       <<"SQL error", Preview(CleanedTrimmed(split_sql_statements(m.up_sql)[si]))>>,
       <<"db">> >>

\* Run h failed at a statement; the failing event.
StmtFailure(h) ==
    /\ h.op = RunAll
    /\ h.events # <<>>
    /\ h.events[Len(h.events)].kind = "fail"
    /\ h.events[Len(h.events)].stage = "stmt"
FailEvent(h) == h.events[Len(h.events)]

\* C19, as the specification states it: the error of a failed statement
\* identifies the index of the failing statement within its migration (one
\* statement of the migration, and no other, can have produced it).
C19_ErrorIdentifiesIndex ==
    \A i \in 1..Len(hist) :
        StmtFailure(hist[i]) =>
           LET m == RegOf(FailEvent(hist[i]).id) IN
           {s \in SentIdx(m) : StatementError(m, s) = hist[i].err}
              = {FailEvent(hist[i]).si}

\* C19 (as the code has it): when a statement of a migration fails during
\* run_all_migrations the run returns an error, never success; the error
\* names the failing migration's id, then the first PreviewLen characters of
\* the failing statement's text, then the database's error, and nothing
\* else: it carries no statement index.
C19_FailureContext ==
    \A i \in 1..Len(hist) :
        hist[i].op = RunAll =>
           /\ \A k \in 1..Len(hist[i].events) :
                 hist[i].events[k].kind = "fail" =>
                    /\ hist[i].status = "Err"
                    /\ hist[i].err[1] = <<"Failed to apply migration", hist[i].events[k].id>>
                    /\ hist[i].err[Len(hist[i].err)] = <<"db">>
           /\ StmtFailure(hist[i]) =>
                 hist[i].err = StatementError(RegOf(FailEvent(hist[i]).id), FailEvent(hist[i]).si)

\* A run was rejected by the database at the second statement of a
\* migration whose first statement begins with the same PreviewLen
\* characters.
C19_Witness ==
    \E i \in 1..Len(hist) :
        /\ StmtFailure(hist[i])
        /\ ~hist[i].faulted
        /\ FailEvent(hist[i]).si = 2
        /\ StatementError(RegOf(FailEvent(hist[i]).id), 1) = hist[i].err
        /\ Len(hist[i].err[2][2]) = PreviewLen

\* The script the registry now holds for the id of row r is not the script
\* whose checksum r records.
Drifted(r) ==
    /\ r.id \in Range(RegIds)
    /\ r.checksum # calculate_checksum(RegOf(r.id).up_sql)

\* The call that returns in this step, when one does.
ACallReturns == Len(hist') = Len(hist) + 1
ReturnedCall == hist'[Len(hist')]

C20_Step ==
    /\ \A r \in db.rows :
          r \notin db'.rows =>
             /\ r.id \notin RowIds(db')
             /\ \E p \in Procs :
                   /\ pr[p].op = Rollback /\ pr[p].arg = r.id
                   /\ pr[p].pc = "rb_commit"
                   /\ pr'[p].pc = "idle" /\ pr'[p].ret.status = "Ok"
    /\ \A r \in db'.rows :
          r \notin db.rows =>
             /\ r.id \notin RowIds(db)
             /\ \E p \in Procs :
                   /\ pr[p].op = RunAll /\ pr[p].pc = "commit"
                   /\ pr'[p].pc = "loop"
                   /\ r = TrackingRow(Cur(p), pr[p].tx.started)
    /\ (ACallReturns /\ ReturnedCall.op = RunAll) =>
          LET h == ReturnedCall
              drifted == {r \in h.db0.rows : Drifted(r)}
          IN  /\ drifted \subseteq h.db1.rows
              /\ \A k \in 1..Len(h.events) :
                    h.events[k].id \notin {r.id : r \in drifted}
              /\ (h.db0.tracking /\ ~h.faulted
                    /\ Range(RegIds) \subseteq RowIds(h.db0)) =>
                       /\ h.status = "Ok"
                       /\ h.events = <<>>
                       /\ h.db1 = h.db0

\* C20: no checksum re-verification.  A run that finds the tracking row of a
\* migration whose registry script is no longer the script the row's
\* checksum was computed from executes nothing for that migration, leaves
\* the row as it is and does not fail for it (with every registry id
\* recorded it succeeds and changes nothing); and in every step a tracking
\* row stays as it is unless the step is the commit of a successful rollback
\* of its id, and appears only in the commit of a successful apply of its id.
C20_NoChecksumVerification == [][C20_Step]_vars

\* After a new build changed the script of an applied migration, a run
\* succeeded; the row still records the old checksum.
C20_Witness ==
    /\ hist # <<>>
    /\ hist[Len(hist)].op = RunAll
    /\ hist[Len(hist)].status = "Ok"
    /\ \E r \in hist[Len(hist)].db0.rows : Drifted(r)
    /\ \E r \in db.rows : Drifted(r)

\* ------------------------------------------------- scanner step claims
RECURSIVE ScanTrace(_, _)
\* The scanner states before the first character of t and after each of its
\* first n characters: element i + 1 is the state after i characters.
ScanTrace(t, n) ==
    IF n = 0 THEN <<SplitInit>>
    ELSE CHOOSE tr \in {Append(prev, SplitStep(prev[n], t[n])) :
                          prev \in {ScanTrace(t, n - 1)}} : TRUE

\* The scanner states of the text split.
ScanStates == ScanTrace(split_sql, Len(split_sql))

\* Character i of the text is where the scan ss emits a statement.
EndsStatementAt(ss, i) == Len(ss[i + 1].statements) = Len(ss[i].statements) + 1

\* C22: terminator rule.  At every character of every text, the scan emits a
\* statement at that character if and only if the character is a semicolon,
\* the parenthesis depth is zero and the scanner is not inside a
\* dollar-quoted block; the statement emitted is the text accumulated so far
\* with the semicolon at its end, it is added after the statements emitted
\* before, and the accumulator is empty afterwards.  Elsewhere no statement
\* is emitted and the character is added to the accumulator.
C22_TerminatorRule ==
    split_out.done =>
       \A ss \in {ScanStates} : \A i \in 1..Len(split_sql) :
          LET b == ss[i]
              a == ss[i + 1]
          IN  IF split_sql[i] = ";" /\ b.paren_depth = 0 /\ ~a.in_dollar_quote
              THEN /\ a.statements = Append(b.statements, Append(b.current, ";"))
                   /\ a.current = <<>>
              ELSE /\ a.statements = b.statements
                   /\ a.current = Append(b.current, split_sql[i])

\* A text has been split in which one semicolon ended a statement and an
\* earlier one, inside parentheses and outside any dollar-quoted block, was
\* passed over.
C22_Witness ==
    /\ split_out.done
    /\ \E ss \in {ScanStates} : \E i \in 1..Len(split_sql) :
          /\ split_sql[i] = ";" /\ EndsStatementAt(ss, i)
          /\ \E j \in 1..(i - 1) :
                /\ split_sql[j] = ";" /\ ~EndsStatementAt(ss, j)
                /\ ss[j].paren_depth > 0 /\ ~ss[j + 1].in_dollar_quote

\* C23, as the specification states it: the parenthesis depth is never
\* negative, at any point of the scan of any text.
C23_DepthNeverNegative ==
    split_out.done =>
       \A ss \in {ScanStates} : \A i \in 1..Len(ss) : ss[i].paren_depth >= 0

\* C26: the splitter loses nothing.  The text split is the statements
\* returned, one after the other in order, followed by a remainder made of
\* white space only (possibly empty), and every statement returned has a
\* character that is not white space.
C26_LosesNothing ==
    split_out.done =>
       /\ \E rem \in {SubSeq(split_sql, Len(Returned) + 1, Len(split_sql))} :
             /\ split_sql = Returned \o rem
             /\ Range(rem) \subseteq Whitespace
       /\ \A k \in 1..Len(split_out.statements) :
             Range(split_out.statements[k]) \ Whitespace # {}

\* A text has been split into several statements, with white space before
\* the first one and a white-space remainder that is not returned.
C26_Witness ==
    /\ split_out.done
    /\ Len(split_out.statements) >= 2
    /\ split_sql[1] \in Whitespace
    /\ Len(Returned) < Len(split_sql)

\* Character i of t is inside a "--" comment (after its two dashes, before
\* the line feed that ends it).
InComment(t, i) ==
    \E j \in 1..(i - 2) :
       /\ t[j] = "-" /\ t[j + 1] = "-"
       /\ \A k \in j..i : t[k] # NL

\* Character i of t is inside a single-quoted literal.
InLiteral(t, i) ==
    /\ t[i] # "'"
    /\ Cardinality({j \in 1..i : t[j] = "'"}) % 2 = 1

\* C28: no comment or string-literal awareness.  For a character inside a
\* "--" comment or a single-quoted literal, outside a dollar-quoted block: a
\* semicolon at depth zero ends a statement there, a "(" raises the
\* parenthesis depth by one and a ")" lowers it by one, as they do anywhere
\* else in the text.
C28_NoCommentAwareness ==
    split_out.done =>
       \A ss \in {ScanStates} : \A i \in 1..Len(split_sql) :
          (InComment(split_sql, i) \/ InLiteral(split_sql, i)) =>
             LET b == ss[i]
                 a == ss[i + 1]
             IN  a.in_dollar_quote \/
                 CASE split_sql[i] = ";" /\ b.paren_depth = 0 ->
                         /\ a.statements = Append(b.statements, Append(b.current, ";"))
                         /\ a.current = <<>>
                   [] split_sql[i] = "(" -> a.paren_depth = b.paren_depth + 1
                   [] split_sql[i] = ")" -> a.paren_depth = b.paren_depth - 1
                   [] OTHER -> a.paren_depth = b.paren_depth

\* A text has been split in which a semicolon inside a comment ended a
\* statement and a "(" inside the same comment raised the depth, so that the
\* semicolon after the comment line ended none.
C28_Witness ==
    /\ split_out.done
    /\ split_sql \in CommentTexts
    /\ \E ss \in {ScanStates} : \E i, j, k \in 1..Len(split_sql) :
          /\ InComment(split_sql, i) /\ split_sql[i] = ";" /\ EndsStatementAt(ss, i)
          /\ InComment(split_sql, j) /\ split_sql[j] = "("
          /\ ~InComment(split_sql, k) /\ split_sql[k] = ";" /\ ~EndsStatementAt(ss, k)

\* Positions of t at which a "$" directly follows a "$".
DollarPairs(t) == {i \in 2..Len(t) : t[i] = "$" /\ t[i - 1] = "$"}

\* C29: dollar-quote toggle count.  The flag flips at a character exactly
\* when that character and the one before it are both "$" (no statement is
\* emitted between them, so both are in the accumulated text): a run of k "$"
\* flips it k - 1 times, after the whole text the flag is 'inside' exactly
\* when the number of such positions is odd, and it is 'outside' after a
\* statement  prefix $$ body $$ suffix ;  whose body is not empty and has no
\* "$".
C29_ToggleCount ==
    split_out.done =>
       \A ss \in {ScanStates} :
          /\ \A i \in 1..Len(split_sql) :
                (ss[i + 1].in_dollar_quote # ss[i].in_dollar_quote)
                   <=> i \in DollarPairs(split_sql)
          /\ ss[Len(ss)].in_dollar_quote
                <=> Cardinality(DollarPairs(split_sql)) % 2 = 1
          /\ (split_sql \in DollarTexts /\ Cardinality(DollarPairs(split_sql)) = 2)
                => ~ss[Len(ss)].in_dollar_quote

\* The text "$$$$" has been split: three flips, the scan ends inside a
\* dollar-quoted block.
C29_Witness ==
    /\ split_out.done
    /\ split_sql = <<"$", "$", "$", "$">>
    /\ Cardinality(DollarPairs(split_sql)) = 3
    /\ ScanStates[5].in_dollar_quote

\* ------------------------------------------------- apply_migration order
\* The event lists of the calls of run_all_migrations, returned or running.
RunEventLists ==
    {hist[i].events : i \in {j \in 1..Len(hist) : hist[j].op = RunAll}}
       \cup {pr[p].events : p \in {q \in Procs : pr[q].op = RunAll}}

\* The smallest index of a sent statement of m above si, 0 when there is none.
NextSent(m, si) ==
    IF \E i \in SentIdx(m) : i > si
    THEN CHOOSE i \in SentIdx(m) : i > si /\ \A j \in SentIdx(m) : j > si => i <= j
    ELSE 0

\* Event k of the list e is in its place in the transaction of its migration.
InApplyOrder(e, k) ==
    LET ev == e[k]
        m == RegOf(ev.id)
    IN  CASE ev.kind = "begin" -> k = 1 \/ e[k - 1].kind = "commit"
          [] ev.kind = "exec" ->
                /\ k > 1 /\ e[k - 1].kind \in {"begin", "exec"} /\ e[k - 1].id = ev.id
                /\ ev.si = NextSent(m, e[k - 1].si)
          [] ev.kind = "insert" ->
                /\ k > 1 /\ e[k - 1].kind \in {"begin", "exec"} /\ e[k - 1].id = ev.id
                /\ NextSent(m, e[k - 1].si) = 0
          [] ev.kind = "commit" ->
                /\ k > 1 /\ e[k - 1].kind = "insert" /\ e[k - 1].id = ev.id
                /\ \A j \in (k + 1)..Len(e) : e[j].id # ev.id
          [] ev.kind = "fail" -> k = Len(e)
          [] OTHER -> FALSE

\* C24: apply_migration ordering.  In every run of run_all_migrations: a
\* transaction is begun only when the one before has committed, and at most
\* one is open at any time; the statements sent are the non-empty ones of
\* the splitter's list, each exactly once, in list order; the tracking-row
\* INSERT comes after the last of them and carries the checksum of the
\* up-script; the commit directly follows the INSERT and nothing is asked of
\* the database for that migration afterwards; a failure ends the run.
C24_ApplyOrdering ==
    /\ \A e \in RunEventLists : \A k \in 1..Len(e) : InApplyOrder(e, k)
    /\ Cardinality({p \in Procs : pr[p].tx.open}) <= 1
    /\ \A p \in Procs :
          (pr[p].op = RunAll /\ pr[p].pc = "commit") =>
             LET ins == pr[p].tx.ops[Len(pr[p].tx.ops)] IN
             /\ ins[1] = "insert"
             /\ ins[2].id = Cur(p).id
             /\ ins[2].checksum = calculate_checksum(Cur(p).up_sql)

\* A run has returned success after committing two migrations, one of them
\* with several statements.
C24_Witness ==
    \E i \in 1..Len(hist) :
        /\ hist[i].op = RunAll /\ hist[i].status = "Ok"
        /\ \E a, b, c \in 1..Len(hist[i].events) :
              /\ a < b
              /\ hist[i].events[a].kind = "commit"
              /\ hist[i].events[b].kind = "commit"
              /\ hist[i].events[c].kind = "exec" /\ hist[i].events[c].si >= 2

\* ------------------------------------------------------------ termination
\* The ids of the registry are distinct.
DistinctIds == \A i, j \in RegIdx : registry[i].id = registry[j].id => i = j

\* Number of commits of migration id among the events e.
CommitsOf(e, id) == Cardinality({k \in 1..Len(e) : e[k].kind = "commit" /\ e[k].id = id})

\* Every run that returned success left a tracking row for every registry
\* id, having committed each id it did not read as applied exactly once and
\* the others not at all.
C25_Complete ==
    \A i \in 1..Len(hist) :
       (hist[i].op = RunAll /\ hist[i].status = "Ok") =>
          \A k \in RegIdx :
             /\ registry[k].id \in RowIds(hist[i].db1)
             /\ CommitsOf(hist[i].events, registry[k].id)
                   = (IF registry[k].id \in Range(hist[i].applied) THEN 0 ELSE 1)

\* C25: a terminating run applies every pending migration.  With a finite
\* registry of distinct ids and a single caller, every call of
\* run_all_migrations returns, and when it returns success every registry id
\* has a tracking row, each pending one committed exactly once by this run.
C25_TerminatesComplete ==
    /\ [](DistinctIds /\ C25_Complete)
    /\ (pr[Runner].op = RunAll /\ pr[Runner].pc # "idle") ~> (pr[Runner].pc = "idle")

\* A run that read a non-empty applied set has returned success after
\* applying the rest of a registry of three migrations.
C25_Witness ==
    \E i \in 1..Len(hist) :
        /\ hist[i].op = RunAll /\ hist[i].status = "Ok"
        /\ Len(registry) >= 3
        /\ hist[i].applied # <<>>
        /\ hist[i].applied_count >= 1

\* ------------------------------------------- rollback and the applied set
\* Database d with the tracking row of m present (when the table exists).
WithRow(d, m) ==
    IF d.tracking
    THEN [d EXCEPT !.rows = {r \in d.rows : r.id # m.id} \cup {TrackingRow(m, 0)}]
    ELSE d

\* Database d with no tracking row of m.
WithoutRow(d, m) == [d EXCEPT !.rows = {r \in d.rows : r.id # m.id}]

RECURSIVE DownRun(_, _, _, _)
\* What a rollback of m that meets no database fault asks of database d from
\* statement si of its down-script on, ops being what its transaction has
\* written so far: the events after rb_begin and the status returned.
DownRun(d, m, ops, si) ==
    LET stmts == split_sql_statements(m.down_sql[2]) IN
    IF si > Len(stmts)
    THEN IF View(d, ops).tracking
         THEN [events |-> <<Ev("rb_delete", m.id, 0, ""), Ev("rb_commit", m.id, 0, "")>>,
               status |-> "Ok"]
         ELSE [events |-> <<Ev("rb_fail", m.id, 0, "delete")>>, status |-> "Err"]
    ELSE IF Trim(stmts[si]) = <<>> THEN DownRun(d, m, ops, si + 1)
    ELSE LET cmd == DbCommand(View(d, ops), Trim(stmts[si])) IN
         IF cmd = <<"error">>
         THEN [events |-> <<Ev("rb_exec", m.id, si, ""), Ev("rb_fail", m.id, si, "stmt")>>,
               status |-> "Err"]
         ELSE LET rest == DownRun(d, m, Append(ops, cmd), si + 1) IN
              [events |-> <<Ev("rb_exec", m.id, si, "")>> \o rest.events,
               status |-> rest.status]

\* Call h is a rollback of a registry migration that has a down-script, and
\* met no database fault.
PlainRollback(h) ==
    /\ IsRollbackOf(h)
    /\ RegOf(h.arg).down_sql # NoDown
    /\ ~h.faulted

\* C27: rollback ignores the applied state.  A rollback of a registry
\* migration with a down-script (no database fault) sends the statements and
\* returns the result it would on the same database with the tracking row of
\* that migration present, and on the same database with that row absent.
\* When the id is not recorded and the call returns success, the DELETE and
\* the commit have been executed and the tracking rows are as before.
C27_RollbackIgnoresApplied ==
    \A i \in 1..Len(hist) :
       PlainRollback(hist[i]) =>
          LET h == hist[i]
              m == RegOf(h.arg)
          IN  /\ \A d \in {WithRow(h.db0, m), WithoutRow(h.db0, m)} :
                    /\ h.events = <<Ev("rb_begin", m.id, 0, "")>> \o DownRun(d, m, <<>>, 1).events
                    /\ h.status = DownRun(d, m, <<>>, 1).status
              /\ (h.arg \notin RowIds(h.db0) /\ h.status = "Ok") =>
                    /\ h.events[Len(h.events)].kind = "rb_commit"
                    /\ h.events[Len(h.events) - 1].kind = "rb_delete"
                    /\ h.db1.rows = h.db0.rows

\* A rollback of a migration that was not recorded as applied has sent a
\* statement of the down-script, deleted no row, committed and returned
\* success.
C27_Witness ==
    \E i \in 1..Len(hist) :
        /\ PlainRollback(hist[i])
        /\ hist[i].arg \notin RowIds(hist[i].db0)
        /\ hist[i].status = "Ok"
        /\ \E k \in 1..Len(hist[i].events) : hist[i].events[k].kind = "rb_exec"

\* ------------------------------------------------------- error preview
\* C30, as the specification states it: for every statement text, building
\* the preview of a failed statement never aborts: whenever a statement
\* fails inside apply_migration the caller receives an Err, whose preview is
\* at most the first 80 bytes of the statement.
C30_PreviewNeverAborts ==
    /\ \A p \in Procs : pr[p].pc # "panicked"
    /\ \A i \in 1..Len(hist) :
          StmtFailure(hist[i]) =>
             LET m == RegOf(FailEvent(hist[i]).id)
                 text == SentText(FailEvent(hist[i]))
             IN  /\ hist[i].status = "Err"
                 /\ hist[i].err = StatementError(m, FailEvent(hist[i]).si)
                 /\ IsPrefix(Preview(text), text)
                 /\ ByteLen(Preview(text)) <= PreviewLen

\* --------------------------------------------------------- concurrent runs
\* The event lists of all calls, returned or under way, each once.
CallEvents ==
    [c \in (1..Len(hist)) \cup {-p : p \in {q \in Procs : pr[q].pc # "idle"}} |->
        IF c > 0 THEN hist[c].events ELSE pr[-c].events]

\* The calls that committed migration id.
Committers(id) ==
    {c \in DOMAIN CallEvents :
        \E k \in 1..Len(CallEvents[c]) :
           CallEvents[c][k].kind = "commit" /\ CallEvents[c][k].id = id}

\* Returned run h began a transaction for migration id.
Attempted(h, id) ==
    /\ h.op = RunAll
    /\ \E k \in 1..Len(h.events) : h.events[k].kind = "begin" /\ h.events[k].id = id

\* Returned run h committed migration id.
CommittedIn(h, id) ==
    \E k \in 1..Len(h.events) : h.events[k].kind = "commit" /\ h.events[k].id = id

\* In every state: a migration is committed by at most one call, its
\* tracking row exists at most once, no migration is partially visible, and
\* of two returned runs that both attempted a migration one of which
\* committed it, the other ended there with an error.
C21_AtMostOne ==
    /\ \A k \in RegIdx :
          /\ Cardinality(Committers(registry[k].id)) <= 1
          /\ Cardinality({r \in db.rows : r.id = registry[k].id}) <= 1
    /\ C1_NoPartial
    /\ \A i, j \in 1..Len(hist) : \A k \in RegIdx :
          (/\ i # j
           /\ Attempted(hist[i], registry[k].id)
           /\ Attempted(hist[j], registry[k].id)
           /\ CommittedIn(hist[i], registry[k].id)) =>
              /\ hist[j].status = "Err"
              /\ hist[j].events[Len(hist[j].events)].kind = "fail"
              /\ hist[j].events[Len(hist[j].events)].id = registry[k].id
              /\ hist[j].err # <<>>

\* C21: concurrent runners.  When two calls of run_all_migrations interleave
\* on one database, at most one of them commits a given migration; the
\* other's transaction for it fails, the failing step leaves the committed
\* database as it was (rollback) and the call returns an error; the tracking
\* row exists at most once and no committed state shows a partially applied
\* migration.
C21_ConcurrentRunners == []C21_AtMostOne /\ [][C1_Step]_vars

\* Two runs that read the same applied set both began the same migration;
\* one committed it and the other, having executed a statement of it,
\* returned an error.
C21_Witness ==
    \E i, j \in 1..Len(hist) : \E k \in RegIdx :
        /\ i # j
        /\ hist[i].applied = hist[j].applied
        /\ Attempted(hist[i], registry[k].id)
        /\ Attempted(hist[j], registry[k].id)
        /\ CommittedIn(hist[i], registry[k].id)
        /\ ~hist[j].faulted
        /\ hist[j].status = "Err"
        /\ \E e \in 1..Len(hist[j].events) : hist[j].events[e].kind = "exec"

====
